---- MODULE Spec2Model ----
(***************************************************************************)
(* A model of terminal-styler: the styled document model (src/src/app.rs), *)
(* the key and mouse dispatchers (src/src/input.rs, src/src/mouse.rs) and  *)
(* the import / export transcoders (src/src/import.rs, src/src/export.rs). *)
(*                                                                         *)
(* The App struct is one record, `app`; every method of App is an operator *)
(* from an App record to an App record, and every handler is the           *)
(* composition of the methods it calls, in the order it calls them.        *)
(* Rust's Option is modelled as a sequence of length 0 (None) or 1 (Some). *)
(* A panic (index out of bounds, arithmetic overflow in a checked build)   *)
(* is recorded in the field `panicked`; the process has no catch_unwind,   *)
(* so no event is handled after a panic.                                   *)
(***************************************************************************)
EXTENDS Integers, Sequences, FiniteSets, TLC

\* app: the App of the running editor
\* job: one run of a transcoder outside the editor: its stage, its input and
\*      what the stages so far produced
VARIABLES app, job

vars == <<app, job>>

-----------------------------------------------------------------------------
(* Bounds of the model *)

\* longest document the editing actions build
MaxLen == 2

-----------------------------------------------------------------------------
(* Option *)

None == <<>>
Some(x) == <<x>>
IsSome(o) == o # None
IsNone(o) == o = None
Unwrap(o) == o[1]

Min(a, b) == IF a <= b THEN a ELSE b
Max(a, b) == IF a >= b THEN a ELSE b

\* usize / u16 saturating_sub
saturating_sub(a, b) == IF a >= b THEN a - b ELSE 0

\* the range of a u8
U8 == 0..255

-----------------------------------------------------------------------------
(* ratatui::style::Color: a tag and, for Rgb and Indexed, its operands *)

NamedColors ==
    <<"Reset", "Black", "Red", "Green", "Yellow", "Blue", "Magenta", "Cyan",
      "White", "DarkGray", "LightRed", "LightGreen", "LightYellow",
      "LightBlue", "LightMagenta", "LightCyan", "Gray">>

Named(tag) == [tag |-> tag, r |-> 0, g |-> 0, b |-> 0]
Rgb(r, g, b) == [tag |-> "Rgb", r |-> r, g |-> g, b |-> b]
Indexed(i) == [tag |-> "Indexed", r |-> i, g |-> 0, b |-> 0]

ColorReset == Named("Reset")

\* CharStyle::default
DefaultStyle ==
    [fg |-> ColorReset, bg |-> ColorReset, bold |-> FALSE, italic |-> FALSE,
     underline |-> FALSE, strikethrough |-> FALSE, dim_level |-> 0]

\* StyledChar::with_style
with_style(ch, style) == [ch |-> ch, style |-> style]

\* StyledChar::new
StyledCharNew(ch) == with_style(ch, DefaultStyle)

PaletteNames ==
    <<"None", "Black", "Red", "Green", "Yellow", "Blue", "Magenta", "Cyan",
      "White", "DarkGray", "LightRed", "LightGreen", "LightYellow",
      "LightBlue", "LightMagenta", "LightCyan", "Gray">>

PaletteKeys ==
    <<"0", "1", "2", "3", "4", "5", "6", "7", "8", "9", "a", "b", "c", "d",
      "e", "f", "g">>

\* colors::COLOR_PALETTE (entry i+1 here is index i of the slice)
COLOR_PALETTE ==
    [i \in 1..Len(NamedColors) |->
        [color |-> Named(NamedColors[i]), name |-> PaletteNames[i],
         key |-> PaletteKeys[i]]]

PaletteLen == Len(COLOR_PALETTE)

\* Panel::next / Panel::prev
PanelNext(p) ==
    CASE p = "Editor" -> "FgColor"
      [] p = "FgColor" -> "BgColor"
      [] p = "BgColor" -> "Formatting"
      [] p = "Formatting" -> "Editor"

PanelPrev(p) ==
    CASE p = "Editor" -> "Formatting"
      [] p = "FgColor" -> "Editor"
      [] p = "BgColor" -> "FgColor"
      [] p = "Formatting" -> "BgColor"

-----------------------------------------------------------------------------
(* App *)

\* App::default / App::new
AppDefault ==
    [text |-> <<>>,
     cursor_pos |-> 0,
     selection |-> None,
     selection_anchor |-> None,
     current_fg |-> ColorReset,
     current_bg |-> ColorReset,
     current_bold |-> FALSE,
     current_italic |-> FALSE,
     current_underline |-> FALSE,
     current_strikethrough |-> FALSE,
     current_dim |-> 0,
     mode |-> "Normal",
     active_panel |-> "Editor",
     fg_color_index |-> 0,
     bg_color_index |-> 0,
     status_message |-> None,
     should_quit |-> FALSE,
     selection_highlight_mode |-> "Reversed",
     panicked |-> FALSE]

\* the CharStyle literal built from the pending fields (app.rs 170-178, 264-272)
PendingStyle(a) ==
    [fg |-> a.current_fg, bg |-> a.current_bg, bold |-> a.current_bold,
     italic |-> a.current_italic, underline |-> a.current_underline,
     strikethrough |-> a.current_strikethrough, dim_level |-> a.current_dim]

\* Vec::insert(i, x) with a 0-based index i <= len
VecInsert(v, i, x) == SubSeq(v, 1, i) \o <<x>> \o SubSeq(v, i + 1, Len(v))

\* Vec::remove(i) with a 0-based index i < len
VecRemove(v, i) == SubSeq(v, 1, i) \o SubSeq(v, i + 2, Len(v))

Panic(a) == [a EXCEPT !.panicked = TRUE]

\* a clear_selection that always returns to Normal mode
clear_selection_to_normal(a) ==
    [a EXCEPT !.selection = None, !.selection_anchor = None, !.mode = "Normal"]

\* App::clear_selection
clear_selection(a) ==
    [a EXCEPT !.selection = None,
              !.selection_anchor = None,
              !.mode = IF a.mode = "Selecting" THEN "Normal" ELSE a.mode]

\* an update_selection that leaves the range as it was
update_selection_stale(a) == a

\* App::update_selection
update_selection(a) ==
    IF a.mode = "Selecting" /\ IsSome(a.selection_anchor)
    THEN LET anchor == Unwrap(a.selection_anchor)
         IN [a EXCEPT !.selection =
                 Some(<<Min(anchor, a.cursor_pos), Max(anchor, a.cursor_pos)>>)]
    ELSE a

\* an insert_char that always pushes at the end
insert_char_at_end(a, ch) ==
    clear_selection([a EXCEPT !.text = Append(a.text, with_style(ch, PendingStyle(a))),
                              !.cursor_pos = a.cursor_pos + 1])

\* App::insert_char
insert_char(a, ch) ==
    LET styled == with_style(ch, PendingStyle(a))
        t == IF a.cursor_pos >= Len(a.text)
             THEN Append(a.text, styled)
             ELSE VecInsert(a.text, a.cursor_pos, styled)
    IN clear_selection([a EXCEPT !.text = t, !.cursor_pos = a.cursor_pos + 1])

\* a delete_char that clears the selection even when it removes nothing
delete_char_always_clears(a) ==
    IF a.cursor_pos > 0 /\ a.text # <<>>
    THEN clear_selection([a EXCEPT !.cursor_pos = a.cursor_pos - 1,
                                   !.text = VecRemove(a.text, a.cursor_pos - 1)])
    ELSE clear_selection(a)

\* App::delete_char
delete_char(a) ==
    IF a.cursor_pos > 0 /\ a.text # <<>>
    THEN clear_selection([a EXCEPT !.cursor_pos = a.cursor_pos - 1,
                                   !.text = VecRemove(a.text, a.cursor_pos - 1)])
    ELSE a

\* delete_char_forward that keeps the selection
delete_char_forward_keep_selection(a) ==
    IF a.cursor_pos < Len(a.text)
    THEN [a EXCEPT !.text = VecRemove(a.text, a.cursor_pos)]
    ELSE a

\* App::delete_char_forward
delete_char_forward(a) ==
    IF a.cursor_pos < Len(a.text)
    THEN clear_selection([a EXCEPT !.text = VecRemove(a.text, a.cursor_pos)])
    ELSE a

\* App::move_left
move_left(a) ==
    IF a.cursor_pos > 0
    THEN update_selection([a EXCEPT !.cursor_pos = a.cursor_pos - 1])
    ELSE a

\* move_right without its bound check
move_right_unchecked(a) ==
    update_selection([a EXCEPT !.cursor_pos = a.cursor_pos + 1])

\* App::move_right
move_right(a) ==
    IF a.cursor_pos < Len(a.text)
    THEN update_selection([a EXCEPT !.cursor_pos = a.cursor_pos + 1])
    ELSE a

\* App::move_to_start
move_to_start(a) == update_selection([a EXCEPT !.cursor_pos = 0])

\* App::move_to_end
move_to_end(a) == update_selection([a EXCEPT !.cursor_pos = Len(a.text)])

\* start_selection that does not enter Selecting mode
start_selection_keep_mode(a) ==
    [a EXCEPT !.selection_anchor = Some(a.cursor_pos),
              !.selection = Some(<<a.cursor_pos, a.cursor_pos>>)]

\* start_selection that forgets the anchor
start_selection_no_anchor(a) ==
    [a EXCEPT !.mode = "Selecting",
              !.selection = Some(<<a.cursor_pos, a.cursor_pos>>)]

\* a start_selection that keeps an anchor that is already set
start_selection_keeps_anchor(a) ==
    IF IsSome(a.selection_anchor) THEN [a EXCEPT !.mode = "Selecting"]
    ELSE [a EXCEPT !.mode = "Selecting",
                   !.selection_anchor = Some(a.cursor_pos),
                   !.selection = Some(<<a.cursor_pos, a.cursor_pos>>)]

\* App::start_selection
start_selection(a) ==
    [a EXCEPT !.mode = "Selecting",
              !.selection_anchor = Some(a.cursor_pos),
              !.selection = Some(<<a.cursor_pos, a.cursor_pos>>)]

\* the targets of an apply_style that starts at the first character
ApplyTargetsFromZero(a) ==
    IF IsSome(a.selection)
    THEN 0..Min(Unwrap(a.selection)[2], saturating_sub(Len(a.text), 1))
    ELSE IF a.cursor_pos < Len(a.text) THEN {a.cursor_pos} ELSE {}

\* the 0-based indices apply_style indexes self.text with: the inclusive range
\* start..=min(end, len.saturating_sub(1)) of the selection, else the cursor
\* when it is below len
ApplyTargets(a) ==
    IF IsSome(a.selection)
    THEN LET sel == Unwrap(a.selection)
         IN sel[1]..Min(sel[2], saturating_sub(Len(a.text), 1))
    ELSE IF a.cursor_pos < Len(a.text) THEN {a.cursor_pos} ELSE {}

\* an apply_style that steps the cursor past the character it has styled
apply_style_advancing(a) ==
    LET style == PendingStyle(a)
        targets == ApplyTargets(a)
    IN IF \E i \in targets : i >= Len(a.text)
       THEN Panic(a)
       ELSE [a EXCEPT !.text =
                 [k \in 1..Len(a.text) |->
                     IF (k - 1) \in targets
                     THEN [a.text[k] EXCEPT !.style = style]
                     ELSE a.text[k]],
                      !.cursor_pos = IF a.cursor_pos < Len(a.text)
                                     THEN a.cursor_pos + 1 ELSE a.cursor_pos]

\* App::apply_style: self.text[i] panics when i >= len
apply_style(a) ==
    LET style == PendingStyle(a)
        targets == ApplyTargets(a)
    IN IF \E i \in targets : i >= Len(a.text)
       THEN Panic(a)
       ELSE [a EXCEPT !.text =
                 [k \in 1..Len(a.text) |->
                     IF (k - 1) \in targets
                     THEN [a.text[k] EXCEPT !.style = style]
                     ELSE a.text[k]]]

\* App::toggle_bold
toggle_bold(a) == apply_style([a EXCEPT !.current_bold = ~a.current_bold])

\* a toggle_italic that flips the pending field and does not apply it
toggle_italic_pending_only(a) == [a EXCEPT !.current_italic = ~a.current_italic]

\* App::toggle_italic
toggle_italic(a) == apply_style([a EXCEPT !.current_italic = ~a.current_italic])

\* App::toggle_underline
toggle_underline(a) ==
    apply_style([a EXCEPT !.current_underline = ~a.current_underline])

\* App::toggle_strikethrough
toggle_strikethrough(a) ==
    apply_style([a EXCEPT !.current_strikethrough = ~a.current_strikethrough])

\* App::cycle_dim: current_dim is a u8; current_dim + 1 overflows at 255, which
\* panics when the build checks overflow and wraps to 0 when it does not
cycle_dim(a, overflow_checks) ==
    IF a.current_dim + 1 > 255 /\ overflow_checks
    THEN Panic(a)
    ELSE apply_style([a EXCEPT !.current_dim = ((a.current_dim + 1) % 256) % 4])

\* App::toggle_selection_highlight_mode
toggle_selection_highlight_mode(a) ==
    [a EXCEPT !.selection_highlight_mode =
        IF a.selection_highlight_mode = "Reversed" THEN "Underline" ELSE "Reversed"]


\* colors::color_index_from_color, called by load_style_from_cursor: the
\* palette index of a colour, 0 for a colour the palette does not hold
color_index_from_color(c) ==
    IF \E i \in 1..PaletteLen : COLOR_PALETTE[i].color = c
    THEN (CHOOSE i \in 1..PaletteLen : COLOR_PALETTE[i].color = c) - 1
    ELSE 0

\* a load_style_from_cursor that leaves the pending dim as it was
load_style_from_cursor_keeps_dim(a) ==
    IF a.cursor_pos < Len(a.text)
    THEN LET style == a.text[a.cursor_pos + 1].style
         IN [a EXCEPT !.current_fg = style.fg,
                      !.current_bg = style.bg,
                      !.current_bold = style.bold,
                      !.current_italic = style.italic,
                      !.current_underline = style.underline,
                      !.current_strikethrough = style.strikethrough,
                      !.fg_color_index = color_index_from_color(style.fg),
                      !.bg_color_index = color_index_from_color(style.bg)]
    ELSE a

\* App::load_style_from_cursor
load_style_from_cursor(a) ==
    IF a.cursor_pos < Len(a.text)
    THEN LET style == a.text[a.cursor_pos + 1].style
         IN [a EXCEPT !.current_fg = style.fg,
                      !.current_bg = style.bg,
                      !.current_bold = style.bold,
                      !.current_italic = style.italic,
                      !.current_underline = style.underline,
                      !.current_strikethrough = style.strikethrough,
                      !.current_dim = style.dim_level,
                      !.fg_color_index = color_index_from_color(style.fg),
                      !.bg_color_index = color_index_from_color(style.bg)]
    ELSE a

\* App::reset_style
reset_style(a) ==
    [a EXCEPT !.current_fg = ColorReset,
              !.current_bg = ColorReset,
              !.current_bold = FALSE,
              !.current_italic = FALSE,
              !.current_underline = FALSE,
              !.current_strikethrough = FALSE,
              !.current_dim = 0,
              !.fg_color_index = 0,
              !.bg_color_index = 0]

\* App::set_status
set_status(a, msg) == [a EXCEPT !.status_message = Some(msg)]

\* App::clear_status
clear_status(a) == [a EXCEPT !.status_message = None]

\* App::is_selected
is_selected(a, pos) ==
    IF IsSome(a.selection)
    THEN pos >= Unwrap(a.selection)[1] /\ pos <= Unwrap(a.selection)[2]
    ELSE FALSE

-----------------------------------------------------------------------------
(* Structured (RON) serialization, import.rs 15-158 and 361-378.           *)
(* A RON text is modelled by the value tree it spells: the ron crate's     *)
(* printer writes the tree of a StyledDocument and its reader accepts a    *)
(* tree exactly when every field has the type the struct declares.         *)

ColorToSerializableName ==
    [Reset |-> "Reset", Black |-> "Black", Red |-> "Red", Green |-> "Green",
     Yellow |-> "Yellow", Blue |-> "Blue", Magenta |-> "Magenta",
     Cyan |-> "Cyan", White |-> "White", DarkGray |-> "DarkGray",
     LightRed |-> "LightRed", LightGreen |-> "LightGreen",
     LightYellow |-> "LightYellow", LightBlue |-> "LightBlue",
     LightMagenta |-> "LightMagenta", LightCyan |-> "LightCyan",
     Gray |-> "Gray"]

\* the table with the two grays exchanged
SerializableToColorNameGraysSwapped ==
    [Reset |-> "Reset", Black |-> "Black", Red |-> "Red", Green |-> "Green",
     Yellow |-> "Yellow", Blue |-> "Blue", Magenta |-> "Magenta",
     Cyan |-> "Cyan", White |-> "White", DarkGray |-> "Gray",
     LightRed |-> "LightRed", LightGreen |-> "LightGreen",
     LightYellow |-> "LightYellow", LightBlue |-> "LightBlue",
     LightMagenta |-> "LightMagenta", LightCyan |-> "LightCyan",
     Gray |-> "DarkGray"]

SerializableToColorName ==
    [Reset |-> "Reset", Black |-> "Black", Red |-> "Red", Green |-> "Green",
     Yellow |-> "Yellow", Blue |-> "Blue", Magenta |-> "Magenta",
     Cyan |-> "Cyan", White |-> "White", DarkGray |-> "DarkGray",
     LightRed |-> "LightRed", LightGreen |-> "LightGreen",
     LightYellow |-> "LightYellow", LightBlue |-> "LightBlue",
     LightMagenta |-> "LightMagenta", LightCyan |-> "LightCyan",
     Gray |-> "Gray"]

\* impl From<Color> for SerializableColor
ColorToSerializable(c) ==
    CASE c.tag = "Rgb" -> [variant |-> "Rgb", args |-> <<c.r, c.g, c.b>>]
      [] c.tag = "Indexed" -> [variant |-> "Indexed", args |-> <<c.r>>]
      [] OTHER -> [variant |-> ColorToSerializableName[c.tag], args |-> <<>>]

\* impl From<SerializableColor> for Color
SerializableToColor(sc) ==
    CASE sc.variant = "Rgb" -> Rgb(sc.args[1], sc.args[2], sc.args[3])
      [] sc.variant = "Indexed" -> Indexed(sc.args[1])
      [] OTHER -> Named(SerializableToColorName[sc.variant])

\* impl From<&CharStyle> for SerializableStyle
StyleToSerializable(style) ==
    [fg |-> ColorToSerializable(style.fg),
     bg |-> ColorToSerializable(style.bg),
     bold |-> style.bold,
     italic |-> style.italic,
     underline |-> style.underline,
     strikethrough |-> style.strikethrough,
     dim_level |-> style.dim_level]

\* impl From<SerializableStyle> for CharStyle
SerializableToStyle(ss) ==
    [fg |-> SerializableToColor(ss.fg),
     bg |-> SerializableToColor(ss.bg),
     bold |-> ss.bold,
     italic |-> ss.italic,
     underline |-> ss.underline,
     strikethrough |-> ss.strikethrough,
     dim_level |-> ss.dim_level]

\* impl From<&StyledChar> for SerializableChar
CharToSerializable(sc) == [ch |-> sc.ch, style |-> StyleToSerializable(sc.style)]

\* impl From<SerializableChar> for StyledChar
SerializableToChar(sc) == with_style(sc.ch, SerializableToStyle(sc.style))

\* a text: its characters and the RON value tree they spell, an Option that
\* is None when they spell none
Malformed == None
Text(chars, tree) == [chars |-> chars, tree |-> tree]

\* the tree deserializes into SerializableColor: a known variant with u8 operands
WellTypedColor(sc) ==
    CASE sc.variant = "Rgb" -> Len(sc.args) = 3 /\ \A k \in 1..3 : sc.args[k] \in U8
      [] sc.variant = "Indexed" -> Len(sc.args) = 1 /\ sc.args[1] \in U8
      [] OTHER -> sc.variant \in DOMAIN SerializableToColorName /\ sc.args = <<>>

\* the tree deserializes into StyledDocument { version: u8, chars: Vec<..> }
WellTypedDocument(tree) ==
    /\ tree.version \in U8
    /\ \A k \in 1..Len(tree.chars) :
          /\ WellTypedColor(tree.chars[k].style.fg)
          /\ WellTypedColor(tree.chars[k].style.bg)
          /\ tree.chars[k].style.dim_level \in U8

Ok(v) == [ok |-> TRUE, value |-> v]
Err(e) == [ok |-> FALSE, value |-> e]

\* import::export_ron
export_ron(text) ==
    Ok(Text(<<"(">>,
            Some([version |-> 1, chars |-> [k \in 1..Len(text) |-> CharToSerializable(text[k])]])))

\* import::import_ron
import_ron(input) ==
    IF IsSome(input.tree) /\ WellTypedDocument(Unwrap(input.tree))
    THEN Ok([k \in 1..Len(Unwrap(input.tree).chars) |->
                SerializableToChar(Unwrap(input.tree).chars[k])])
    ELSE Err("Failed to parse RON")

-----------------------------------------------------------------------------
(* ANSI import, import.rs 160-359.  A string is a sequence of characters;  *)
(* ESC stands for the byte 0x1b and "\\" for one backslash.                *)

ESC == "ESC"

Digits == <<"0", "1", "2", "3", "4", "5", "6", "7", "8", "9">>
IsDigit(c) == \E d \in 1..Len(Digits) : Digits[d] = c
DigitVal(c) == (CHOOSE d \in 1..Len(Digits) : Digits[d] = c) - 1

\* s[i..] starts with the characters of p (i is 1-based)
StartsWithAt(s, i, p) ==
    /\ i + Len(p) - 1 <= Len(s)
    /\ \A k \in 1..Len(p) : s[i + k - 1] = p[k]

\* a u32 as <<its value div 256, its value mod 256>>
U32(n) == [hi |-> n \div 256, lo |-> n % 256]
U32MaxHi == 16777215

\* an `as u8` that saturates at 255
AsU8Saturating(v) == IF v.hi = 0 THEN v.lo ELSE 255

\* `x as u8`
AsU8(v) == v.lo

\* str::parse::<u32> of a run of decimal digits: None on overflow
RECURSIVE ParseU32From(_, _, _)
ParseU32From(digits, k, acc) ==
    IF k > Len(digits) THEN Some(acc)
    ELSE LET low == acc.lo * 10 + DigitVal(digits[k])
             hi == acc.hi * 10 + low \div 256
         IN IF hi > U32MaxHi THEN None
            ELSE ParseU32From(digits, k + 1, [hi |-> hi, lo |-> low % 256])

ParseU32(digits) == ParseU32From(digits, 1, U32(0))

\* ParseState::default
ParseStateDefault ==
    [fg |-> ColorReset, bg |-> ColorReset, bold |-> FALSE, italic |-> FALSE,
     underline |-> FALSE, strikethrough |-> FALSE, dim |-> FALSE]

\* a conversion that decodes dim to the deepest level
to_char_style_full_dim(st) ==
    [fg |-> st.fg, bg |-> st.bg, bold |-> st.bold, italic |-> st.italic,
     underline |-> st.underline, strikethrough |-> st.strikethrough,
     dim_level |-> IF st.dim THEN 3 ELSE 0]

\* ParseState::to_char_style
to_char_style(st) ==
    [fg |-> st.fg, bg |-> st.bg, bold |-> st.bold, italic |-> st.italic,
     underline |-> st.underline, strikethrough |-> st.strikethrough,
     dim_level |-> IF st.dim THEN 1 ELSE 0]

StandardColors ==
    <<"Black", "Red", "Green", "Yellow", "Blue", "Magenta", "Cyan", "White">>
BrightColors ==
    <<"DarkGray", "LightRed", "LightGreen", "LightYellow", "LightBlue",
      "LightMagenta", "LightCyan", "Gray">>

\* a 38/48 arm that leaves the index on the selector after reading a colour
ExtendedColorOperandsReread(params, index) ==
    LET n == Len(params)
        i1 == index + 1
    IN IF i1 < n
       THEN CASE params[i1 + 1] = U32(5) ->
                   IF i1 + 1 < n
                   THEN [color |-> Some(Indexed(AsU8(params[i1 + 2]))),
                         index |-> i1]
                   ELSE [color |-> None, index |-> i1 + 1]
              [] params[i1 + 1] = U32(2) ->
                   IF i1 + 3 < n
                   THEN [color |-> Some(Rgb(AsU8(params[i1 + 2]),
                                            AsU8(params[i1 + 3]),
                                            AsU8(params[i1 + 4]))),
                         index |-> i1]
                   ELSE [color |-> None, index |-> i1]
              [] OTHER -> [color |-> None, index |-> i1]
       ELSE [color |-> None, index |-> i1]

\* the arm of codes 38 and 48: the extended colour read at the 0-based
\* `index` of the introducing code; returns the colour set (None when the
\* sequence is short or the selector unknown) and the index left behind
ExtendedColor(params, index) ==
    LET n == Len(params)
        i1 == index + 1
    IN IF i1 < n
       THEN CASE params[i1 + 1] = U32(5) ->
                   IF i1 + 1 < n
                   THEN [color |-> Some(Indexed(AsU8(params[i1 + 2]))),
                         index |-> i1 + 1]
                   ELSE [color |-> None, index |-> i1 + 1]
              [] params[i1 + 1] = U32(2) ->
                   IF i1 + 3 < n
                   THEN [color |-> Some(Rgb(AsU8(params[i1 + 2]),
                                            AsU8(params[i1 + 3]),
                                            AsU8(params[i1 + 4]))),
                         index |-> i1 + 3]
                   ELSE [color |-> None, index |-> i1]
              [] OTHER -> [color |-> None, index |-> i1]
       ELSE [color |-> None, index |-> i1]

\* a code 22 that turns off bold alone
BoldOff(state) == [state EXCEPT !.bold = FALSE]

\* the arm 22 of apply_sgr_param (import.rs 203-206)
NormalIntensity(state) == [state EXCEPT !.bold = FALSE, !.dim = FALSE]

\* import::apply_sgr_param: the state and the index after the call
apply_sgr_param(state, params, index) ==
    IF index >= Len(params) THEN [state |-> state, index |-> index]
    ELSE LET p == params[index + 1]
             code == IF p.hi = 0 THEN p.lo ELSE 256
             same(st) == [state |-> st, index |-> index]
         IN CASE code = 0 -> same(ParseStateDefault)
              [] code = 1 -> same([state EXCEPT !.bold = TRUE])
              [] code = 2 -> same([state EXCEPT !.dim = TRUE])
              [] code = 3 -> same([state EXCEPT !.italic = TRUE])
              [] code = 4 -> same([state EXCEPT !.underline = TRUE])
              [] code = 9 -> same([state EXCEPT !.strikethrough = TRUE])
              [] code = 22 -> same(NormalIntensity(state))
              [] code = 23 -> same([state EXCEPT !.italic = FALSE])
              [] code = 24 -> same([state EXCEPT !.underline = FALSE])
              [] code = 29 -> same([state EXCEPT !.strikethrough = FALSE])
              [] code \in 30..37 ->
                   same([state EXCEPT !.fg = Named(StandardColors[code - 29])])
              [] code = 38 ->
                   LET x == ExtendedColor(params, index)
                   IN [state |-> IF IsSome(x.color)
                                 THEN [state EXCEPT !.fg = Unwrap(x.color)]
                                 ELSE state,
                       index |-> x.index]
              [] code = 39 -> same([state EXCEPT !.fg = ColorReset])
              [] code \in 40..47 ->
                   same([state EXCEPT !.bg = Named(StandardColors[code - 39])])
              [] code = 48 ->
                   LET x == ExtendedColor(params, index)
                   IN [state |-> IF IsSome(x.color)
                                 THEN [state EXCEPT !.bg = Unwrap(x.color)]
                                 ELSE state,
                       index |-> x.index]
              [] code = 49 -> same([state EXCEPT !.bg = ColorReset])
              [] code \in 90..97 ->
                   same([state EXCEPT !.fg = Named(BrightColors[code - 89])])
              [] code \in 100..107 ->
                   same([state EXCEPT !.bg = Named(BrightColors[code - 99])])
              [] OTHER -> same(state)

\* the loop of parse_ansi over one parameter list (import.rs 340-344)
RECURSIVE ApplyParamsFrom(_, _, _)
ApplyParamsFrom(state, params, i) ==
    IF i < Len(params)
    THEN LET r == apply_sgr_param(state, params, i)
         IN ApplyParamsFrom(r.state, params, r.index + 1)
    ELSE state

\* the params of parse_ansi: of the parameters of one escape sequence, those
\* that parse as u32 (filter_map, import.rs 333-337)
CollectParams(raw) ==
    LET parsed == [k \in 1..Len(raw) |-> ParseU32(raw[k])]
        kept == SelectSeq(parsed, IsSome)
    IN [k \in 1..Len(kept) |-> Unwrap(kept[k])]

\* one escape sequence: the parameters are applied in order, and an empty
\* list resets (import.rs 333-349)
ApplyEscapeSequence(state, raw) ==
    LET params == CollectParams(raw)
    IN IF params = <<>> THEN ParseStateDefault
       ELSE ApplyParamsFrom(state, params, 0)

-----------------------------------------------------------------------------
(* The escape grammar (ansi.pest).  The grammar file is not part of the    *)
(* sources at hand; the tokens are those parse_ansi matches on             *)
(* (plain_char, literal_escape, escape_sequence with sgr_params of param)  *)
(* and their syntax is the one the specification gives.                    *)

IntroRaw == <<ESC, "[">>
IntroOctal == <<"\\", "0", "3", "3", "[">>
IntroHex == <<"\\", "x", "1", "b", "[">>
IntroE == <<"\\", "e", "[">>

\* length of the introducer that starts at s[i], 0 when none does
IntroducerLen(s, i) ==
    CASE StartsWithAt(s, i, IntroOctal) -> Len(IntroOctal)
      [] StartsWithAt(s, i, IntroHex) -> Len(IntroHex)
      [] StartsWithAt(s, i, IntroE) -> Len(IntroE)
      [] StartsWithAt(s, i, IntroRaw) -> Len(IntroRaw)
      [] OTHER -> 0

\* the end (exclusive) of the run of digits that starts at s[i]
RECURSIVE DigitsEnd(_, _)
DigitsEnd(s, i) ==
    IF i <= Len(s) /\ IsDigit(s[i]) THEN DigitsEnd(s, i + 1) ELSE i

\* sgr_params "m" from s[i]: decimal parameters separated by ";", then "m".
\* Returns the parameters (each a run of digits) and the index after "m".
RECURSIVE ParamList(_, _, _)
ParamList(s, i, acc) ==
    LET e == DigitsEnd(s, i)
    IN IF e = i THEN Err("expected param")
       ELSE LET acc2 == Append(acc, SubSeq(s, i, e - 1))
            IN IF e <= Len(s) /\ s[e] = ";" THEN ParamList(s, e + 1, acc2)
               ELSE IF e <= Len(s) /\ s[e] = "m"
                    THEN Ok([params |-> acc2, next |-> e + 1])
                    ELSE Err("expected ; or m")

SgrBody(s, i) ==
    IF i <= Len(s) /\ s[i] = "m" THEN Ok([params |-> <<>>, next |-> i + 1])
    ELSE ParamList(s, i, <<>>)

Token(kind, ch, params) == [kind |-> kind, ch |-> ch, params |-> params]

LiteralEscapes == {"n", "t", "r"}

\* AnsiParser::parse(Rule::ansi_text, input): the token list, or an error
RECURSIVE Tokenize(_, _, _)
Tokenize(s, i, acc) ==
    IF i > Len(s) THEN Ok(acc)
    ELSE LET n == IntroducerLen(s, i)
         IN IF n > 0
            THEN LET body == SgrBody(s, i + n)
                 IN IF body.ok
                    THEN Tokenize(s, body.value.next,
                             Append(acc, Token("escape_sequence", "",
                                               body.value.params)))
                    ELSE body
            ELSE IF s[i] = ESC THEN Err("unexpected escape")
            ELSE IF s[i] = "\\" /\ i < Len(s) /\ s[i + 1] \in LiteralEscapes
            THEN Tokenize(s, i + 2,
                     Append(acc, Token("literal_escape", s[i + 1], <<>>)))
            ELSE Tokenize(s, i + 1, Append(acc, Token("plain_char", s[i], <<>>)))

\* the character a literal_escape stands for (import.rs 321-326)
LiteralChar(letter) ==
    CASE letter = "n" -> "\n" [] letter = "t" -> "\t" [] letter = "r" -> "\r"

\* a parser whose accumulator starts afresh on every line
ParseTokenResetAtNewline(state, result, t) ==
    CASE t.kind = "plain_char" ->
           [state |-> state,
            result |-> Append(result, with_style(t.ch, to_char_style(state)))]
      [] t.kind = "literal_escape" ->
           [state |-> ParseStateDefault,
            result |-> Append(result,
                           with_style(LiteralChar(t.ch), to_char_style(state)))]
      [] t.kind = "escape_sequence" ->
           [state |-> ApplyEscapeSequence(state, t.params), result |-> result]

\* one iteration of the loop of parse_ansi (import.rs 314-353): the
\* accumulator and the result after the pair t
ParseToken(state, result, t) ==
    CASE t.kind = "plain_char" ->
           [state |-> state,
            result |-> Append(result, with_style(t.ch, to_char_style(state)))]
      [] t.kind = "literal_escape" ->
           [state |-> state,
            result |-> Append(result,
                           with_style(LiteralChar(t.ch), to_char_style(state)))]
      [] t.kind = "escape_sequence" ->
           [state |-> ApplyEscapeSequence(state, t.params), result |-> result]

\* the loop of parse_ansi over the tokens (import.rs 312-356)
RECURSIVE ParseTokens(_, _, _, _)
ParseTokens(tokens, k, state, result) ==
    IF k > Len(tokens) THEN result
    ELSE LET r == ParseToken(state, result, tokens[k])
         IN ParseTokens(tokens, k + 1, r.state, r.result)

\* import::parse_ansi on the characters of a string
parse_ansi(chars) ==
    LET pairs == Tokenize(chars, 1, <<>>)
    IN IF pairs.ok
       THEN Ok(ParseTokens(pairs.value, 1, ParseStateDefault, <<>>))
       ELSE Err("Failed to parse ANSI")

-----------------------------------------------------------------------------
(* ANSI export, export.rs 10-78 and colors.rs 31-106.  A code is the       *)
(* sequence of the characters of its String.                               *)

\* format!("{}", n) of an unsigned number
RECURSIVE Dec(_)
Dec(n) ==
    IF n < 10 THEN <<Digits[n + 1]>>
    ELSE Dec(n \div 10) \o <<Digits[(n % 10) + 1]>>

\* the codes of the named colours in fg_ansi_code
FgCodes ==
    [Black |-> 30, Red |-> 31, Green |-> 32, Yellow |-> 33, Blue |-> 34,
     Magenta |-> 35, Cyan |-> 36, White |-> 37, DarkGray |-> 90,
     LightRed |-> 91, LightGreen |-> 92, LightYellow |-> 93, LightBlue |-> 94,
     LightMagenta |-> 95, LightCyan |-> 96, Gray |-> 97, Reset |-> 39]

\* the codes of fg_ansi_code with Gray and DarkGray exchanged
FgCodesGraysSwapped ==
    [FgCodes EXCEPT !.Gray = FgCodes.DarkGray, !.DarkGray = FgCodes.Gray]

\* the codes of the named colours in bg_ansi_code
BgCodes ==
    [Black |-> 40, Red |-> 41, Green |-> 42, Yellow |-> 43, Blue |-> 44,
     Magenta |-> 45, Cyan |-> 46, White |-> 47, DarkGray |-> 100,
     LightRed |-> 101, LightGreen |-> 102, LightYellow |-> 103,
     LightBlue |-> 104, LightMagenta |-> 105, LightCyan |-> 106, Gray |-> 107,
     Reset |-> 49]

\* the operands of an extended colour after its introducing code
ExtendedCode(intro, color) ==
    IF color.tag = "Rgb"
    THEN Dec(intro) \o <<";", "2", ";">> \o Dec(color.r) \o <<";">>
         \o Dec(color.g) \o <<";">> \o Dec(color.b)
    ELSE Dec(intro) \o <<";", "5", ";">> \o Dec(color.r)

\* colors::fg_ansi_code
fg_ansi_code(color) ==
    IF color.tag \in {"Rgb", "Indexed"} THEN ExtendedCode(38, color)
    ELSE Dec(FgCodes[color.tag])

\* colors::bg_ansi_code
bg_ansi_code(color) ==
    IF color.tag \in {"Rgb", "Indexed"} THEN ExtendedCode(48, color)
    ELSE Dec(BgCodes[color.tag])

\* colors::bold_ansi_code, dim_ansi_code, italic_ansi_code,
\* underline_ansi_code, strikethrough_ansi_code: an Option of a code
bold_ansi_code(bold) == IF bold THEN Some(<<"1">>) ELSE None
dim_ansi_code(level) == IF level \in 1..3 THEN Some(<<"2">>) ELSE None
italic_ansi_code(italic) == IF italic THEN Some(<<"3">>) ELSE None
underline_ansi_code(underline) == IF underline THEN Some(<<"4">>) ELSE None
strikethrough_ansi_code(strikethrough) ==
    IF strikethrough THEN Some(<<"9">>) ELSE None

\* new_codes of generate_echo_command for one character (export.rs 19-52):
\* an Option is a sequence of no or one code, so appending it pushes it if Some
new_codes_of(style) ==
    <<fg_ansi_code(style.fg)>>
    \o (IF bg_ansi_code(style.bg) # <<"4", "9">>
        THEN <<bg_ansi_code(style.bg)>> ELSE <<>>)
    \o bold_ansi_code(style.bold)
    \o italic_ansi_code(style.italic)
    \o underline_ansi_code(style.underline)
    \o strikethrough_ansi_code(style.strikethrough)
    \o dim_ansi_code(style.dim_level)

\* [String]::join
RECURSIVE Join(_, _)
Join(codes, sep) ==
    IF codes = <<>> THEN <<>>
    ELSE IF Len(codes) = 1 THEN codes[1]
    ELSE codes[1] \o sep \o Join(Tail(codes), sep)

\* the character '`'
BACKTICK == "BACKTICK"

\* an escaping that lets the dollar sign through
EscapedCharDollarPlain(ch) ==
    CASE ch = "\n" -> <<"\\", "n">>
      [] ch = "\"" -> <<"\\", "\"">>
      [] ch = "\\" -> <<"\\", "\\">>
      [] ch = BACKTICK -> <<"\\", BACKTICK>>
      [] ch = "!" -> <<"\\", "!">>
      [] OTHER -> <<ch>>

\* the characters pushed for one document character (export.rs 63-72)
EscapedChar(ch) ==
    CASE ch = "\n" -> <<"\\", "n">>
      [] ch = "\"" -> <<"\\", "\"">>
      [] ch = "\\" -> <<"\\", "\\">>
      [] ch = "$" -> <<"\\", "$">>
      [] ch = BACKTICK -> <<"\\", BACKTICK>>
      [] ch = "!" -> <<"\\", "!">>
      [] OTHER -> <<ch>>

\* r#"echo -e ""#
EchoPrefix == <<"e", "c", "h", "o", " ", "-", "e", " ", "\"">>

\* a sequence start without the leading reset
SequenceStartNoReset == <<"\\", "0", "3", "3", "[">>

\* r#"\033[0;"#, the start of every style sequence
SequenceStart == <<"\\", "0", "3", "3", "[", "0", ";">>

\* r#"\033[0m""#
ResetSuffix == <<"\\", "0", "3", "3", "[", "0", "m", "\"">>

\* an encoder that restates the style before every character
EmitAlways(styled_char, current_codes) ==
    [out |-> SequenceStart \o Join(new_codes_of(styled_char.style), <<";">>)
             \o <<"m">> \o EscapedChar(styled_char.ch),
     codes |-> new_codes_of(styled_char.style)]

\* one iteration of the loop of generate_echo_command (export.rs 18-73):
\* what it pushes to the output and the current_codes it leaves
EmitChar(styled_char, current_codes) ==
    LET new_codes == new_codes_of(styled_char.style)
    IN IF new_codes # current_codes
       THEN [out |-> SequenceStart \o Join(new_codes, <<";">>) \o <<"m">>
                     \o EscapedChar(styled_char.ch),
             codes |-> new_codes]
       ELSE [out |-> EscapedChar(styled_char.ch), codes |-> current_codes]

\* the loop of generate_echo_command from the k-th character on
RECURSIVE EchoFrom(_, _, _, _)
EchoFrom(text, k, current_codes, output) ==
    IF k > Len(text) THEN output
    ELSE LET e == EmitChar(text[k], current_codes)
         IN EchoFrom(text, k + 1, e.codes, output \o e.out)

\* an encoder without the early return for the empty document
generate_echo_command_always_resets(text) ==
    EchoFrom(text, 1, <<>>, EchoPrefix) \o ResetSuffix

\* export::generate_echo_command
generate_echo_command(text) ==
    IF text = <<>> THEN EchoPrefix \o <<"\"">>
    ELSE EchoFrom(text, 1, <<>>, EchoPrefix) \o ResetSuffix

-----------------------------------------------------------------------------
(* Format detection and wrapper stripping, import.rs 380-433 *)

Whitespace == {" ", "\n", "\t", "\r"}

RECURSIVE TrimStart(_)
TrimStart(s) ==
    IF s # <<>> /\ s[1] \in Whitespace THEN TrimStart(Tail(s)) ELSE s

RECURSIVE TrimEnd(_)
TrimEnd(s) ==
    IF s # <<>> /\ s[Len(s)] \in Whitespace
    THEN TrimEnd(SubSeq(s, 1, Len(s) - 1)) ELSE s

\* str::trim
Trim(s) == TrimEnd(TrimStart(s))

StyledDocumentName == <<"S", "t", "y", "l", "e", "d", "D", "o", "c", "u", "m", "e", "n", "t">>

\* a detection that knows the opening parenthesis alone
is_ron_format_paren_only(input) ==
    StartsWithAt(Trim(input.chars), 1, <<"(">>)

\* import::is_ron_format
is_ron_format(input) ==
    LET trimmed == Trim(input.chars)
    IN StartsWithAt(trimmed, 1, <<"(">>)
       \/ StartsWithAt(trimmed, 1, StyledDocumentName)

\* the prefixes array of strip_echo_wrapper, in its order
WrapperPrefixes ==
    <<<<"e", "c", "h", "o", " ", "-", "e", " ", "\"">>,
      <<"e", "c", "h", "o", " ", "-", "e", " ", "'">>,
      <<"e", "c", "h", "o", " ", "\"">>,
      <<"e", "c", "h", "o", " ", "'">>,
      <<"p", "r", "i", "n", "t", "f", " ", "\"">>,
      <<"p", "r", "i", "n", "t", "f", " ", "'">>>>

PrefixEchoAnsiC == <<"e", "c", "h", "o", " ", "$", "'">>
PrefixEchoEAnsiC == <<"e", "c", "h", "o", " ", "-", "e", " ", "$", "'">>

\* a search that stops at the first occurrence
Find(s, c) ==
    IF \E k \in 1..Len(s) : s[k] = c
    THEN Some((CHOOSE k \in 1..Len(s) :
                  s[k] = c /\ \A j \in 1..(k - 1) : s[j] # c) - 1)
    ELSE None

\* str::rfind(char): Some(0-based position of the last occurrence)
RFind(s, c) ==
    IF \E k \in 1..Len(s) : s[k] = c
    THEN Some((CHOOSE k \in 1..Len(s) :
                  s[k] = c /\ \A j \in (k + 1)..Len(s) : s[j] # c) - 1)
    ELSE None

\* the for loop of strip_echo_wrapper from prefix number k on, then the
\* $'...' forms, then the input itself
RECURSIVE StripFrom(_, _, _)
StripFrom(input, trimmed, k) ==
    IF k <= Len(WrapperPrefixes)
    THEN LET prefix == WrapperPrefixes[k]
             after_prefix == SubSeq(trimmed, Len(prefix) + 1, Len(trimmed))
             end_pos == RFind(after_prefix, prefix[Len(prefix)])
         IN IF StartsWithAt(trimmed, 1, prefix) /\ IsSome(end_pos)
            THEN SubSeq(after_prefix, 1, Unwrap(end_pos))
            ELSE StripFrom(input, trimmed, k + 1)
    ELSE IF StartsWithAt(trimmed, 1, PrefixEchoAnsiC)
            \/ StartsWithAt(trimmed, 1, PrefixEchoEAnsiC)
    THEN LET start == IF StartsWithAt(trimmed, 1, PrefixEchoEAnsiC)
                      THEN Len(PrefixEchoEAnsiC) ELSE Len(PrefixEchoAnsiC)
             after_prefix == SubSeq(trimmed, start + 1, Len(trimmed))
             end_pos == RFind(after_prefix, "'")
         IN IF IsSome(end_pos) THEN SubSeq(after_prefix, 1, Unwrap(end_pos))
            ELSE input
    ELSE input

\* import::strip_echo_wrapper on the characters of a string
strip_echo_wrapper(chars) == StripFrom(chars, Trim(chars), 1)

\* the clipboard as import_from_clipboard and the exporters meet it: whether
\* Clipboard::new and get_text / set_text succeed, and the text it holds
Clipboard(ok, content) == [ok |-> ok, content |-> content]

\* an import that empties the document before it decodes the clipboard
import_clear_first(a, clipboard) ==
    IF ~clipboard.ok THEN [app |-> a, result |-> Err("clipboard")]
    ELSE LET content == clipboard.content
             decoded == IF is_ron_format(content) THEN import_ron(content)
                        ELSE parse_ansi(strip_echo_wrapper(content.chars))
             a1 == clear_selection([a EXCEPT !.text = <<>>, !.cursor_pos = 0])
         IN IF ~decoded.ok THEN [app |-> a1, result |-> decoded]
            ELSE [app |-> clear_selection([a EXCEPT !.text = decoded.value,
                                                    !.cursor_pos = Len(decoded.value)]),
                  result |-> Ok("")]

\* an import that installs the decoded text and leaves the cursor and the
\* selection where they were
import_keep_cursor(a, clipboard) ==
    IF ~clipboard.ok THEN [app |-> a, result |-> Err("clipboard")]
    ELSE LET content == clipboard.content
             decoded == IF is_ron_format(content) THEN import_ron(content)
                        ELSE parse_ansi(strip_echo_wrapper(content.chars))
         IN IF ~decoded.ok THEN [app |-> a, result |-> decoded]
            ELSE [app |-> [a EXCEPT !.text = decoded.value],
                  result |-> Ok("")]

\* import::import_from_clipboard: the App and the Result it returns
import_from_clipboard(a, clipboard) ==
    IF ~clipboard.ok THEN [app |-> a, result |-> Err("clipboard")]
    ELSE LET content == clipboard.content
             ron == is_ron_format(content)
             stripped == strip_echo_wrapper(content.chars)
             decoded == IF ron THEN import_ron(content) ELSE parse_ansi(stripped)
             format_name ==
                 IF ron THEN "RON"
                 ELSE IF Len(stripped) # Len(content.chars) THEN "echo cmd"
                 ELSE "ANSI"
         IN IF ~decoded.ok THEN [app |-> a, result |-> decoded]
            ELSE LET chars == decoded.value
                     a2 == [a EXCEPT !.text = chars, !.cursor_pos = Len(chars)]
                 IN [app |-> clear_selection(a2), result |-> Ok(format_name)]

\* import::export_ron_to_clipboard: the Result it returns (the App is not changed)
export_ron_to_clipboard(a, clipboard) ==
    IF export_ron(a.text).ok /\ clipboard.ok THEN Ok("") ELSE Err("clipboard")

-----------------------------------------------------------------------------
(* Mouse dispatch, mouse.rs *)

\* a crossterm MouseEvent and the terminal area handed to the handler
MouseEventOf(kind, button, column, row) ==
    [kind |-> kind, button |-> button, column |-> column, row |-> row]
Rect(x, y, width) == [x |-> x, y |-> y, width |-> width]

\* an editor press that moves the cursor first and then starts the selection
handle_editor_mouse_input_anchor_at_click(a, mouse_event, terminal_area, mouse_x, mouse_y) ==
    IF mouse_event.kind = "Down" /\ mouse_event.button = "Left"
    THEN LET relative_x == saturating_sub(mouse_x, terminal_area.x + 2)
             relative_y == saturating_sub(mouse_y, terminal_area.y + 3)
             line_width == saturating_sub(terminal_area.width, 4)
             text_pos == relative_y * line_width + relative_x
             a1 == IF text_pos <= Len(a.text)
                   THEN [a EXCEPT !.cursor_pos = text_pos] ELSE a
         IN IF a1.mode # "Selecting"
            THEN set_status(start_selection(a1), <<"-- VISUAL (mouse) --">>)
            ELSE update_selection(a1)
    ELSE a

\* mouse::handle_editor_mouse_input
handle_editor_mouse_input(a, mouse_event, terminal_area, mouse_x, mouse_y) ==
    IF mouse_event.kind = "Down" /\ mouse_event.button = "Left"
    THEN LET a1 == IF a.mode # "Selecting"
                   THEN set_status(start_selection(a), <<"-- VISUAL (mouse) --">>)
                   ELSE a
             relative_x == saturating_sub(mouse_x, terminal_area.x + 2)
             relative_y == saturating_sub(mouse_y, terminal_area.y + 3)
             line_width == saturating_sub(terminal_area.width, 4)
             text_pos == relative_y * line_width + relative_x
         IN IF text_pos <= Len(a1.text)
            THEN update_selection([a1 EXCEPT !.cursor_pos = text_pos])
            ELSE a1
    ELSE a

\* export::copy_to_clipboard: the Result it returns (the App is not changed)
copy_to_clipboard(a, clipboard) == IF clipboard.ok THEN Ok("") ELSE Err("clipboard")

OnOff(b) == IF b THEN "ON" ELSE "OFF"
DimNames == <<"0", "1", "2", "3">>
DimName(d) == IF d < Len(DimNames) THEN DimNames[d + 1] ELSE "other"

\* mouse::handle_color_picker_mouse_input
handle_color_picker_mouse_input(a, mouse_event, terminal_area, is_foreground, mouse_x, mouse_y) ==
    IF mouse_event.kind = "Down" /\ mouse_event.button = "Left"
    THEN LET relative_x == saturating_sub(mouse_x, terminal_area.x + 1)
             relative_y == saturating_sub(mouse_y, terminal_area.y + 1)
             computed == IF relative_y = 0 THEN Min(relative_x \div 4, 8)
                         ELSE IF relative_y = 1 THEN 9 + Min(relative_x \div 4, 8)
                         ELSE 0
             color_index == Min(computed, saturating_sub(PaletteLen, 1))
             entry == COLOR_PALETTE[color_index + 1]
             a1 == IF is_foreground
                   THEN set_status([a EXCEPT !.fg_color_index = color_index,
                                             !.current_fg = entry.color],
                                   <<"FG (mouse)", entry.name>>)
                   ELSE set_status([a EXCEPT !.bg_color_index = color_index,
                                             !.current_bg = entry.color],
                                   <<"BG (mouse)", entry.name>>)
         IN apply_style(a1)
    ELSE a

\* mouse::handle_formatting_mouse_input
handle_formatting_mouse_input(a, mouse_event, terminal_area, mouse_x, mouse_y, env) ==
    IF mouse_event.kind = "Down" /\ mouse_event.button = "Left"
    THEN LET relative_x == saturating_sub(mouse_x, terminal_area.x + 1)
             relative_y == saturating_sub(mouse_y, terminal_area.y + 1)
             a1 ==
               IF relative_y = 0
               THEN IF relative_x < 10
                    THEN LET t == toggle_bold(a)
                         IN set_status(t, <<"Bold (mouse)", OnOff(t.current_bold)>>)
                    ELSE IF relative_x < 20
                    THEN LET t == toggle_italic(a)
                         IN set_status(t, <<"Italic (mouse)",
                                            OnOff(t.current_italic)>>)
                    ELSE IF relative_x < 30
                    THEN LET t == toggle_underline(a)
                         IN set_status(t, <<"Underline (mouse)",
                                            OnOff(t.current_underline)>>)
                    ELSE a
               ELSE IF relative_y = 1
               THEN IF relative_x < 10
                    THEN LET t == toggle_strikethrough(a)
                         IN set_status(t, <<"Strikethrough (mouse)",
                                            OnOff(t.current_strikethrough)>>)
                    ELSE IF relative_x < 20
                    THEN LET t == cycle_dim(a, env.overflow_checks)
                         IN set_status(t, <<"Dim level (mouse)",
                                            DimName(t.current_dim)>>)
                    ELSE IF relative_x < 30
                    THEN IF copy_to_clipboard(a, env.clipboard).ok
                         THEN set_status(a, <<"Copied to clipboard! (mouse)">>)
                         ELSE set_status(a, <<"Copy failed (mouse)">>)
                    ELSE a
               ELSE a
         IN apply_style(a1)
    ELSE a

\* what the thread leaves behind: the App as the handler left it, or, when
\* the handler panicked, the App it was handed, marked as panicked
Outcome(a, after) == IF after.panicked THEN Panic(a) ELSE after

\* a dispatcher that takes a drag for a press
handle_mouse_event_drag_as_press(a, mouse_event, terminal_area, env) ==
    LET press == IF mouse_event.kind = "Drag"
                 THEN [mouse_event EXCEPT !.kind = "Down"] ELSE mouse_event
    IN IF press.kind # "Down" THEN a
       ELSE IF press.button \notin {"Left", "Right", "Middle"} THEN a
       ELSE Outcome(a,
              CASE a.active_panel = "Editor" ->
                     handle_editor_mouse_input(a, press, terminal_area,
                                               press.column, press.row)
                [] a.active_panel = "FgColor" ->
                     handle_color_picker_mouse_input(a, press, terminal_area,
                                                     TRUE, press.column, press.row)
                [] a.active_panel = "BgColor" ->
                     handle_color_picker_mouse_input(a, press, terminal_area,
                                                     FALSE, press.column, press.row)
                [] a.active_panel = "Formatting" ->
                     handle_formatting_mouse_input(a, press, terminal_area,
                                                   press.column, press.row, env))

\* mouse::handle_mouse_event
handle_mouse_event(a, mouse_event, terminal_area, env) ==
    IF mouse_event.kind # "Down" THEN a
    ELSE IF mouse_event.button \notin {"Left", "Right", "Middle"} THEN a
    ELSE LET mouse_x == mouse_event.column
             mouse_y == mouse_event.row
         IN Outcome(a,
              CASE a.active_panel = "Editor" ->
                     handle_editor_mouse_input(a, mouse_event, terminal_area,
                                               mouse_x, mouse_y)
                [] a.active_panel = "FgColor" ->
                     handle_color_picker_mouse_input(a, mouse_event,
                         terminal_area, TRUE, mouse_x, mouse_y)
                [] a.active_panel = "BgColor" ->
                     handle_color_picker_mouse_input(a, mouse_event,
                         terminal_area, FALSE, mouse_x, mouse_y)
                [] a.active_panel = "Formatting" ->
                     handle_formatting_mouse_input(a, mouse_event,
                         terminal_area, mouse_x, mouse_y, env))

-----------------------------------------------------------------------------
(* Key dispatch, input.rs.  A key is its KeyCode (a character for           *)
(* KeyCode::Char, a name otherwise) and whether CONTROL is held.            *)

Key(code, ctrl) == [code |-> code, ctrl |-> ctrl]

UpperCase == <<"A", "B", "C", "D", "E", "F", "G">>
LowerCase == <<"a", "b", "c", "d", "e", "f", "g">>

\* char::to_ascii_lowercase on the letters a palette key can be
to_ascii_lowercase(c) ==
    IF \E k \in 1..Len(UpperCase) : UpperCase[k] = c
    THEN LowerCase[CHOOSE k \in 1..Len(UpperCase) : UpperCase[k] = c]
    ELSE c

\* colors::color_index_from_key
color_index_from_key(c) ==
    IF \E i \in 1..PaletteLen : COLOR_PALETTE[i].key = to_ascii_lowercase(c)
    THEN Some((CHOOSE i \in 1..PaletteLen :
                  COLOR_PALETTE[i].key = to_ascii_lowercase(c)) - 1)
    ELSE None

\* App::move_up, move_down, move_to_line_start, move_to_line_end: methods
\* input.rs calls that app.rs does not hold.  Each is a move: the cursor goes
\* to some position of [0, len] and the selection is recomputed.
move_within_text(a, target) ==
    update_selection([a EXCEPT !.cursor_pos = Min(target, Len(a.text))])

\* App::yank, called by handle_selecting_input and not held by app.rs:
\* copying the selection leaves the document, cursor and selection alone
yank(a) == a

SpecialKeys ==
    {"Left", "Right", "Up", "Down", "Home", "End", "Tab", "BackTab", "Esc",
     "Enter", "Backspace", "Delete"}

IsCharKey(code) == code \notin SpecialKeys

\* input::handle_normal_typing_input
handle_normal_typing_input(a, key, env) ==
    LET c == key.code
        normal == a.mode = "Normal"
    IN CASE c = "q" /\ normal /\ a.text = <<>> -> [a EXCEPT !.should_quit = TRUE]
         [] c = "Tab" ->
              clear_status([a EXCEPT !.active_panel = PanelNext(a.active_panel)])
         [] c = "BackTab" ->
              clear_status([a EXCEPT !.active_panel = PanelPrev(a.active_panel)])
         [] c \in {"Left", "h"} /\ normal -> move_left(a)
         [] c \in {"Right", "l"} /\ normal -> move_right(a)
         [] c \in {"Up", "k"} /\ normal -> move_within_text(a, env.target)
         [] c \in {"Down", "j"} /\ normal -> move_within_text(a, env.target)
         [] c \in {"Home", "0"} /\ normal -> move_within_text(a, env.target)
         [] c \in {"End", "$"} /\ normal -> move_within_text(a, env.target)
         [] c = "Left" -> move_left(a)
         [] c = "Right" -> move_right(a)
         [] c \in {"Up", "Down", "Home", "End"} -> move_within_text(a, env.target)
         [] c = "i" /\ normal ->
              set_status([a EXCEPT !.mode = "Typing"], <<"-- INSERT --">>)
         [] c = "a" /\ normal ->
              set_status(move_right([a EXCEPT !.mode = "Typing"]),
                         <<"-- INSERT --">>)
         [] c = "v" /\ normal ->
              set_status(start_selection(load_style_from_cursor(a)),
                         <<"-- VISUAL --">>)
         [] c = "e" /\ normal ->
              IF copy_to_clipboard(a, env.clipboard).ok
              THEN set_status(a, <<"Copied to clipboard!">>)
              ELSE set_status(a, <<"Copy failed">>)
         [] c = "Esc" ->
              clear_status(clear_selection([a EXCEPT !.mode = "Normal"]))
         [] c = "Enter" /\ a.mode = "Typing" -> insert_char(a, "\n")
         [] c = "Backspace" -> delete_char(a)
         [] c = "Delete" -> delete_char_forward(a)
         [] IsCharKey(c) /\ a.mode = "Typing" -> insert_char(a, c)
         [] OTHER -> a

\* input::handle_selecting_input
handle_selecting_input(a, key, env) ==
    LET c == key.code
    IN CASE c \in {"Left", "h"} -> move_left(a)
         [] c \in {"Right", "l"} -> move_right(a)
         [] c \in {"Up", "k", "Down", "j", "Home", "0", "End", "$"} ->
              move_within_text(a, env.target)
         [] c = "y" -> clear_selection(set_status(yank(a), <<"Yanked">>))
         [] c = "Enter" -> set_status(apply_style(a), <<"Style applied">>)
         [] c \in {"Esc", "v"} -> clear_status(clear_selection(a))
         [] c = "Tab" -> [a EXCEPT !.active_panel = PanelNext(a.active_panel)]
         [] c = "BackTab" -> [a EXCEPT !.active_panel = PanelPrev(a.active_panel)]
         [] OTHER -> a

\* input::handle_editor_input
handle_editor_input(a, key, env) ==
    IF a.mode \in {"Normal", "Typing"}
    THEN handle_normal_typing_input(a, key, env)
    ELSE handle_selecting_input(a, key, env)

\* the arm that takes palette entry idx as the pending colour (input.rs
\* 251-262 and 288-298); COLOR_PALETTE[idx] panics when idx is out of range
PickColor(a, idx, is_foreground) ==
    IF idx >= PaletteLen THEN Panic(a)
    ELSE LET entry == COLOR_PALETTE[idx + 1]
         IN apply_style(
              IF is_foreground
              THEN set_status([a EXCEPT !.current_fg = entry.color],
                              <<"FG", entry.name>>)
              ELSE set_status([a EXCEPT !.current_bg = entry.color],
                              <<"BG", entry.name>>))

\* a colour picker whose Right key moves past the last palette entry
handle_color_picker_input_right_unchecked(a, key, is_foreground) ==
    LET c == key.code
        color_index == IF is_foreground THEN a.fg_color_index ELSE a.bg_color_index
        with_index(i) == IF is_foreground THEN [a EXCEPT !.fg_color_index = i]
                         ELSE [a EXCEPT !.bg_color_index = i]
    IN CASE IsCharKey(c) /\ IsSome(color_index_from_key(c)) ->
              LET idx == Unwrap(color_index_from_key(c))
              IN PickColor(with_index(idx), idx, is_foreground)
         [] c \in {"Left", "h"} ->
              IF color_index > 0 THEN with_index(color_index - 1) ELSE a
         [] c \in {"Right", "l"} -> with_index(color_index + 1)
         [] c \in {"Up", "k"} ->
              IF color_index >= 9 THEN with_index(color_index - 9) ELSE a
         [] c \in {"Down", "j"} ->
              IF color_index + 9 < PaletteLen THEN with_index(color_index + 9)
              ELSE a
         [] c = "Enter" -> PickColor(a, color_index, is_foreground)
         [] c = "Tab" ->
              clear_status([a EXCEPT !.active_panel = PanelNext(a.active_panel)])
         [] c = "BackTab" ->
              clear_status([a EXCEPT !.active_panel = PanelPrev(a.active_panel)])
         [] c = "Esc" -> clear_status([a EXCEPT !.active_panel = "Editor"])
         [] OTHER -> a

\* input::handle_color_picker_input
handle_color_picker_input(a, key, is_foreground) ==
    LET c == key.code
        color_index == IF is_foreground THEN a.fg_color_index ELSE a.bg_color_index
        with_index(i) == IF is_foreground THEN [a EXCEPT !.fg_color_index = i]
                         ELSE [a EXCEPT !.bg_color_index = i]
    IN CASE IsCharKey(c) /\ IsSome(color_index_from_key(c)) ->
              LET idx == Unwrap(color_index_from_key(c))
              IN PickColor(with_index(idx), idx, is_foreground)
         [] c \in {"Left", "h"} ->
              IF color_index > 0 THEN with_index(color_index - 1) ELSE a
         [] c \in {"Right", "l"} ->
              IF color_index < PaletteLen - 1 THEN with_index(color_index + 1)
              ELSE a
         [] c \in {"Up", "k"} ->
              IF color_index >= 9 THEN with_index(color_index - 9) ELSE a
         [] c \in {"Down", "j"} ->
              IF color_index + 9 < PaletteLen THEN with_index(color_index + 9)
              ELSE a
         [] c = "Enter" -> PickColor(a, color_index, is_foreground)
         [] c = "Tab" ->
              clear_status([a EXCEPT !.active_panel = PanelNext(a.active_panel)])
         [] c = "BackTab" ->
              clear_status([a EXCEPT !.active_panel = PanelPrev(a.active_panel)])
         [] c = "Esc" -> clear_status([a EXCEPT !.active_panel = "Editor"])
         [] OTHER -> a

\* input::handle_formatting_input
handle_formatting_input(a, key, env) ==
    LET c == key.code
    IN CASE c \in {"b", "B", "1"} ->
              LET t == toggle_bold(a)
              IN set_status(t, <<"Bold", OnOff(t.current_bold)>>)
         [] c \in {"i", "I", "2"} ->
              LET t == toggle_italic(a)
              IN set_status(t, <<"Italic", OnOff(t.current_italic)>>)
         [] c \in {"u", "U", "3"} ->
              LET t == toggle_underline(a)
              IN set_status(t, <<"Underline", OnOff(t.current_underline)>>)
         [] c \in {"s", "S", "4"} ->
              LET t == toggle_strikethrough(a)
              IN set_status(t, <<"Strikethrough", OnOff(t.current_strikethrough)>>)
         [] c \in {"m", "M", "5"} ->
              LET t == cycle_dim(a, env.overflow_checks)
              IN set_status(t, <<"Dim level", DimName(t.current_dim)>>)
         [] c \in {"e", "E"} ->
              IF copy_to_clipboard(a, env.clipboard).ok
              THEN set_status(a, <<"Copied to clipboard!">>)
              ELSE set_status(a, <<"Copy failed">>)
         [] c = "Tab" ->
              clear_status([a EXCEPT !.active_panel = PanelNext(a.active_panel)])
         [] c = "BackTab" ->
              clear_status([a EXCEPT !.active_panel = PanelPrev(a.active_panel)])
         [] c = "Esc" -> clear_status([a EXCEPT !.active_panel = "Editor"])
         [] OTHER -> a

\* the dispatch on the active panel that ends handle_key_event (input.rs 77-82)
PanelDispatch(a, key, env) ==
    CASE a.active_panel = "Editor" -> handle_editor_input(a, key, env)
      [] a.active_panel = "FgColor" -> handle_color_picker_input(a, key, TRUE)
      [] a.active_panel = "BgColor" -> handle_color_picker_input(a, key, FALSE)
      [] a.active_panel = "Formatting" -> handle_formatting_input(a, key, env)

\* panel shortcuts whose 'r' applies the restored style whether or not a
\* selection is active
PanelShortcutsResetApplies(a, key, env) ==
    LET c == key.code
    IN CASE a.mode # "Typing" /\ c \in {"f", "F"} ->
              set_status([a EXCEPT !.active_panel = "FgColor"],
                         <<"Foreground color">>)
         [] a.mode # "Typing" /\ c \in {"g", "G"} ->
              set_status([a EXCEPT !.active_panel = "BgColor"],
                         <<"Background color">>)
         [] a.mode # "Typing" /\ c \in {"d", "D"} ->
              set_status([a EXCEPT !.active_panel = "Formatting"],
                         <<"Decorations">>)
         [] a.mode # "Typing" /\ c \in {"r", "R"} ->
              set_status(apply_style(reset_style(a)), <<"Reset style applied">>)
         [] OTHER -> PanelDispatch(a, key, env)

\* the global shortcuts taken outside Typing mode (input.rs 46-75)
PanelShortcuts(a, key, env) ==
    LET c == key.code
    IN CASE a.mode # "Typing" /\ c \in {"f", "F"} ->
              set_status([a EXCEPT !.active_panel = "FgColor"],
                         <<"Foreground color">>)
         [] a.mode # "Typing" /\ c \in {"g", "G"} ->
              set_status([a EXCEPT !.active_panel = "BgColor"],
                         <<"Background color">>)
         [] a.mode # "Typing" /\ c \in {"d", "D"} ->
              set_status([a EXCEPT !.active_panel = "Formatting"],
                         <<"Decorations">>)
         [] a.mode # "Typing" /\ c \in {"r", "R"} ->
              LET a1 == reset_style(a)
              IN IF IsSome(a1.selection)
                 THEN set_status(apply_style(a1), <<"Reset style applied">>)
                 ELSE set_status(a1, <<"Style reset">>)
         [] OTHER -> PanelDispatch(a, key, env)

\* input::handle_key_event
handle_key_event(a, key, env) ==
    LET c == key.code
    IN Outcome(a,
         CASE key.ctrl /\ c \in {"c", "q"} -> [a EXCEPT !.should_quit = TRUE]
           [] key.ctrl /\ c = "h" ->
                LET t == toggle_selection_highlight_mode(a)
                IN set_status(t, <<"Selection highlight",
                                   t.selection_highlight_mode>>)
           [] key.ctrl /\ c = "i" ->
                LET r == import_from_clipboard(a, env.clipboard)
                IN IF r.result.ok
                   THEN set_status(r.app, <<"Imported", r.result.value>>)
                   ELSE set_status(r.app, <<"Import failed", r.result.value>>)
           [] key.ctrl /\ c = "e" ->
                IF export_ron_to_clipboard(a, env.clipboard).ok
                THEN set_status(a, <<"Copied RON to clipboard!">>)
                ELSE set_status(a, <<"RON export failed">>)
           [] OTHER -> PanelShortcuts(a, key, env))

-----------------------------------------------------------------------------
(* Inputs of the model *)

\* the characters typed or imported
Chars == {"a", "\n"}

SerReset == [variant |-> "Reset", args |-> <<>>]

\* the RON tree of one character record
RonChar(ch, fg, bold, dim_level) ==
    [ch |-> ch,
     style |-> [fg |-> fg, bg |-> SerReset, bold |-> bold, italic |-> FALSE,
                underline |-> FALSE, strikethrough |-> FALSE,
                dim_level |-> dim_level]]

RonDocument(version, chars) ==
    Text(<<"(">>, Some([version |-> version, chars |-> chars]))

\* clipboard texts: structured documents (one with a dim level no editing
\* produces, one of another version, one whose dim level is no u8, one that
\* is no document) and ANSI texts (plain, styled, wrapped, unterminated)
ClipboardTexts ==
    {RonDocument(1, <<RonChar("a", SerReset, FALSE, 255)>>),
     RonDocument(2, <<RonChar("a", SerReset, TRUE, 0), RonChar("\n", SerReset, FALSE, 0)>>),
     RonDocument(1, <<RonChar("a", SerReset, FALSE, 256)>>),
     Text(<<"(", "a">>, Malformed),
     Text(<<ESC, "[", "1", "m", "a", "\\", "n">>, Malformed),
     Text(<<"e", "c", "h", "o", " ", "\"", "a", "\"">>, Malformed),
     Text(<<"a", ESC, "[", "1">>, Malformed)}

Clipboards ==
    {Clipboard(TRUE, t) : t \in ClipboardTexts}
    \cup {Clipboard(FALSE, Text(<<>>, Malformed))}

StyleFields ==
    {"fg", "bg", "bold", "italic", "underline", "strikethrough", "dim_level"}

\* the styles the model explores differ from the default in at most one field
Sparse(style) ==
    Cardinality({f \in StyleFields : style[f] # DefaultStyle[f]}) <= 1

\* the styles of a state: the pending one and those of the characters
StylesOf(a) == {PendingStyle(a)} \cup {a.text[k].style : k \in 1..Len(a.text)}

\* the states the model explores: a document of at most MaxLen characters,
\* and beside the default style at most one other style, a sparse one
Bounded(a) ==
    /\ Len(a.text) <= MaxLen
    /\ Cardinality(StylesOf(a) \ {DefaultStyle}) <= 1
    /\ \A style \in StylesOf(a) : Sparse(style)

Running == ~app.panicked /\ ~app.should_quit

\* a step is taken while the process runs and leads to a state within the
\* bounds of the model
Allowed(after) == Running /\ Bounded(after)

-----------------------------------------------------------------------------
(* The document model driven method by method *)

\* no transcoder run
Idle == [stage |-> "idle"]

Init == app = AppDefault /\ job = Idle

InsertChar ==
    \E ch \in Chars :
        /\ Allowed(insert_char(app, ch))
        /\ app' = Outcome(app, insert_char(app, ch))
        /\ UNCHANGED job

DeleteChar ==
    /\ Allowed(delete_char(app))
    /\ app' = Outcome(app, delete_char(app))
    /\ UNCHANGED job

DeleteCharForward ==
    /\ Allowed(delete_char_forward(app))
    /\ app' = Outcome(app, delete_char_forward(app))
    /\ UNCHANGED job

MoveLeft ==
    /\ Allowed(move_left(app))
    /\ app' = Outcome(app, move_left(app))
    /\ UNCHANGED job

MoveRight ==
    /\ Allowed(move_right(app))
    /\ app' = Outcome(app, move_right(app))
    /\ UNCHANGED job

MoveToStart ==
    /\ Allowed(move_to_start(app))
    /\ app' = Outcome(app, move_to_start(app))
    /\ UNCHANGED job

MoveToEnd ==
    /\ Allowed(move_to_end(app))
    /\ app' = Outcome(app, move_to_end(app))
    /\ UNCHANGED job

StartSelection ==
    /\ Allowed(start_selection(app))
    /\ app' = Outcome(app, start_selection(app))
    /\ UNCHANGED job

ClearSelection ==
    /\ Allowed(clear_selection(app))
    /\ app' = Outcome(app, clear_selection(app))
    /\ UNCHANGED job

ApplyStyle ==
    /\ Allowed(apply_style(app))
    /\ app' = Outcome(app, apply_style(app))
    /\ UNCHANGED job

ToggleBold ==
    /\ Allowed(toggle_bold(app))
    /\ app' = Outcome(app, toggle_bold(app))
    /\ UNCHANGED job

ToggleItalic ==
    /\ Allowed(toggle_italic(app))
    /\ app' = Outcome(app, toggle_italic(app))
    /\ UNCHANGED job

ToggleUnderline ==
    /\ Allowed(toggle_underline(app))
    /\ app' = Outcome(app, toggle_underline(app))
    /\ UNCHANGED job

ToggleStrikethrough ==
    /\ Allowed(toggle_strikethrough(app))
    /\ app' = Outcome(app, toggle_strikethrough(app))
    /\ UNCHANGED job

\* a build checks arithmetic overflow or it does not
CycleDim ==
    \E overflow_checks \in BOOLEAN :
        /\ Allowed(cycle_dim(app, overflow_checks))
        /\ app' = Outcome(app, cycle_dim(app, overflow_checks))
        /\ UNCHANGED job

LoadStyleFromCursor ==
    /\ Allowed(load_style_from_cursor(app))
    /\ app' = Outcome(app, load_style_from_cursor(app))
    /\ UNCHANGED job

ResetStyle ==
    /\ Allowed(reset_style(app))
    /\ app' = Outcome(app, reset_style(app))
    /\ UNCHANGED job

ImportFromClipboard ==
    \E clipboard \in Clipboards :
        LET r == import_from_clipboard(app, clipboard)
        IN /\ Allowed(r.app)
           /\ app' = r.app
           /\ UNCHANGED job

\* left clicks on and past the text, and the events the handler ignores
MouseEvents ==
    {MouseEventOf("Down", "Left", column, row) : column \in 2..4, row \in 3..4}
    \cup {MouseEventOf("Down", "Right", 2, 3), MouseEventOf("Up", "Left", 2, 3),
          MouseEventOf("Moved", "None", 2, 3)}

\* a terminal area whose lines hold two characters
TerminalArea == Rect(0, 0, 6)

EmptyText == Text(<<>>, Malformed)

\* what a handler meets outside the App: the clipboard, whether the build
\* checks arithmetic overflow, and the position a line move ends at
Env(clipboard, overflow_checks, target) ==
    [clipboard |-> clipboard, overflow_checks |-> overflow_checks,
     target |-> target]

MouseEnvs ==
    {Env(Clipboard(ok, EmptyText), overflow_checks, 0) :
        ok \in BOOLEAN, overflow_checks \in BOOLEAN}

MouseEvent ==
    \E mouse_event \in MouseEvents, env \in MouseEnvs :
        LET after == handle_mouse_event(app, mouse_event, TerminalArea, env)
        IN /\ Allowed(after)
           /\ app' = after
           /\ UNCHANGED job

Next ==
    \/ InsertChar
    \/ DeleteChar
    \/ DeleteCharForward
    \/ MoveLeft
    \/ MoveRight
    \/ MoveToStart
    \/ MoveToEnd
    \/ StartSelection
    \/ ClearSelection
    \/ ApplyStyle
    \/ ToggleBold
    \/ ToggleItalic
    \/ ToggleUnderline
    \/ ToggleStrikethrough
    \/ CycleDim
    \/ LoadStyleFromCursor
    \/ ResetStyle
    \/ ImportFromClipboard
    \/ MouseEvent

Spec == Init /\ [][Next]_vars

-----------------------------------------------------------------------------
(* The editor driven through its two dispatchers.  KeyCode::Char('p') in    *)
(* Normal mode calls App::paste, which no source file holds and the         *)
(* specification does not describe: that key is not among the keys pressed. *)

CharKeys == {"a", "v", "i", "y", "r"}

CtrlKeys == {"c", "i"}

\* longest document the key-driven editor explores
MaxKeyLen == 1

\* the states the key-driven editor explores: of the keys typed in Typing
\* mode the document keeps those of Chars, and the cursors of the two colour
\* pickers stay on the palette entry App::default puts them on
KeyBounded(a) ==
    /\ Bounded(a)
    /\ Len(a.text) <= MaxKeyLen
    /\ \A k \in 1..Len(a.text) : a.text[k].ch \in Chars
    /\ a.fg_color_index = AppDefault.fg_color_index
    /\ a.bg_color_index = AppDefault.bg_color_index

Keys ==
    {Key(code, FALSE) : code \in CharKeys \cup SpecialKeys}
    \cup {Key(code, TRUE) : code \in CtrlKeys}

\* a clipboard that cannot be read, one that holds no document and one that
\* holds a document of one character
KeyClipboards ==
    {Clipboard(FALSE, EmptyText),
     Clipboard(TRUE, Text(<<"(", "a">>, Malformed)),
     Clipboard(TRUE, RonDocument(1, <<RonChar("a", SerReset, FALSE, 255)>>))}

LineMoveKeys == {"Up", "k", "Down", "j", "Home", "0", "End", "$"}

\* the environments that make a difference to the handling of key
KeyEnvs(key) ==
    {Env(clipboard, overflow_checks, target) :
        clipboard \in (IF key.ctrl /\ key.code = "i"
                       THEN KeyClipboards ELSE {Clipboard(FALSE, EmptyText)}),
        overflow_checks \in (IF key.code = "m" THEN BOOLEAN ELSE {FALSE}),
        target \in (IF key.code \in LineMoveKeys THEN 0..MaxKeyLen ELSE {0})}

KeyEvent ==
    \E key \in Keys :
        \E env \in KeyEnvs(key) :
            LET after == handle_key_event(app, key, env)
            IN /\ Running
               /\ KeyBounded(after)
               /\ app' = after
               /\ UNCHANGED job

\* the environments that make a difference to the handling of a mouse
\* event: only the Formatting panel copies to the clipboard or cycles dim
MouseEnvsOf(a) ==
    IF a.active_panel = "Formatting" THEN MouseEnvs
    ELSE {Env(Clipboard(FALSE, EmptyText), FALSE, 0)}

MouseEventOfKeys ==
    \E mouse_event \in MouseEvents, env \in MouseEnvsOf(app) :
        LET after == handle_mouse_event(app, mouse_event, TerminalArea, env)
        IN /\ Running
           /\ KeyBounded(after)
           /\ app' = after
           /\ UNCHANGED job

NextKeys == KeyEvent \/ MouseEventOfKeys

SpecKeys == Init /\ [][NextKeys]_vars

-----------------------------------------------------------------------------
(* The structured round trip: a document is exported, the text imported *)

\* longest document of the round trip built from the sample characters
MaxDocLen == 2

ColorSamples ==
    {Named(NamedColors[i]) : i \in 1..Len(NamedColors)}
    \cup {Rgb(1, 2, 3), Rgb(255, 0, 128), Indexed(0), Indexed(200)}

\* every colour variant as fg and as bg, every combination of the four
\* decorations and every dim level
StyleSamples ==
    [fg : ColorSamples, bg : ColorSamples, bold : BOOLEAN, italic : BOOLEAN,
     underline : BOOLEAN, strikethrough : BOOLEAN, dim_level : 0..3]

\* a few characters whose styles differ in every field
CharSamples ==
    {with_style("a", DefaultStyle),
     with_style("\n", [DefaultStyle EXCEPT !.fg = Named("Red"), !.bold = TRUE,
                                           !.dim_level = 3]),
     with_style("b", [DefaultStyle EXCEPT !.bg = Rgb(1, 2, 3), !.italic = TRUE,
                                          !.underline = TRUE,
                                          !.strikethrough = TRUE,
                                          !.dim_level = 2])}

SeqsUpTo(S, n) == UNION {[1..k -> S] : k \in 0..n}

RoundTripDocuments ==
    {<<with_style("a", style)>> : style \in StyleSamples}
    \cup SeqsUpTo(CharSamples, MaxDocLen)

RonJob(stage, doc, text, decoded) ==
    [stage |-> stage, doc |-> doc, text |-> text, decoded |-> decoded]

InitRon ==
    /\ app = AppDefault
    /\ job \in {RonJob("document", doc, EmptyText, Err("")) :
                   doc \in RoundTripDocuments}

ExportRon ==
    /\ job.stage = "document"
    /\ job' = [job EXCEPT !.stage = "exported", !.text = export_ron(job.doc).value]
    /\ UNCHANGED app

ImportRon ==
    /\ job.stage = "exported"
    /\ job' = [job EXCEPT !.stage = "imported", !.decoded = import_ron(job.text)]
    /\ UNCHANGED app

NextRon == ExportRon \/ ImportRon

SpecRon == InitRon /\ [][NextRon]_vars

-----------------------------------------------------------------------------
(* Properties of the document model *)

SelStart(a) == Unwrap(a.selection)[1]
SelEnd(a) == Unwrap(a.selection)[2]

\* C1: the cursor is within [0, text.len()] in every reachable state
C1_CursorInBounds == app.cursor_pos >= 0 /\ app.cursor_pos <= Len(app.text)

\* a cursor at the end of a document that was filled, with a selection
C1_Witness ==
    /\ Len(app.text) = MaxLen
    /\ app.cursor_pos = Len(app.text)
    /\ IsSome(app.selection)

\* C2: an import that fails returns an error and leaves text, cursor_pos,
\* selection, selection_anchor and mode as they were
C2_FailedImportKeepsDocument ==
    \A clipboard \in Clipboards :
        LET r == import_from_clipboard(app, clipboard)
        IN ~r.result.ok =>
              /\ r.app.text = app.text
              /\ r.app.cursor_pos = app.cursor_pos
              /\ r.app.selection = app.selection
              /\ r.app.selection_anchor = app.selection_anchor
              /\ r.app.mode = app.mode

\* a document with a selection, in front of a clipboard of each failing kind
C2_Witness ==
    /\ app.text # <<>>
    /\ IsSome(app.selection)
    /\ app.cursor_pos > 0
    /\ ~app.panicked
    /\ \E c1, c2, c3 \in Clipboards :
          /\ ~c1.ok
          /\ c2.ok /\ is_ron_format(c2.content)
          /\ c3.ok /\ ~is_ron_format(c3.content)
          /\ \A c \in {c1, c2, c3} : ~import_from_clipboard(app, c).result.ok

\* C4: selection is Some exactly when selection_anchor is Some
C4_SelectionIffAnchor == IsSome(app.selection) <=> IsSome(app.selection_anchor)

\* a selection that was extended away from its anchor
C4_Witness ==
    /\ IsSome(app.selection)
    /\ IsSome(app.selection_anchor)
    /\ SelStart(app) < SelEnd(app)

C6_SelectionWithinText ==
    IsSome(app.selection) =>
        /\ SelStart(app) <= SelEnd(app)
        /\ SelStart(app) >= 0
        /\ SelEnd(app) <= Len(app.text) - 1

\* C7 as claimed: after insert_char, delete_char or delete_char_forward, from
\* any state, selection and selection_anchor are None, also when the delete
\* is a no-op at the buffer edge
C7_EditAlwaysClearsSelection ==
    ~app.panicked =>
        \A after \in {insert_char(app, ch) : ch \in Chars}
                     \cup {delete_char(app), delete_char_forward(app)} :
            IsNone(after.selection) /\ IsNone(after.selection_anchor)

\* C7 as amended: after insert_char, and after a delete_char or
\* delete_char_forward that removes a character, selection and
\* selection_anchor are None; a delete at the buffer edge changes nothing
C7_StructuralEditClearsSelection ==
    ~app.panicked =>
        /\ \A ch \in Chars :
              LET after == insert_char(app, ch)
              IN IsNone(after.selection) /\ IsNone(after.selection_anchor)
        /\ LET after == delete_char(app)
           IN IF app.cursor_pos > 0
              THEN /\ Len(after.text) = Len(app.text) - 1
                   /\ IsNone(after.selection) /\ IsNone(after.selection_anchor)
              ELSE after = app
        /\ LET after == delete_char_forward(app)
           IN IF app.cursor_pos < Len(app.text)
              THEN /\ Len(after.text) = Len(app.text) - 1
                   /\ IsNone(after.selection) /\ IsNone(after.selection_anchor)
              ELSE after = app

\* a selection with characters on both sides of the cursor
C7_Witness ==
    /\ IsSome(app.selection)
    /\ ~app.panicked
    /\ app.cursor_pos > 0
    /\ app.cursor_pos < Len(app.text)

\* C8: with a selection (s, e) on a document of length n > 0, apply_style
\* sets the style of exactly the indices s..min(e, n-1) to the pending style
\* and leaves every other style, every ch, the length, the cursor and the
\* selection unchanged
C8_ApplyStyleOnSelection ==
    (IsSome(app.selection) /\ Len(app.text) > 0 /\ ~app.panicked) =>
        LET after == apply_style(app)
            n == Len(app.text)
        IN /\ ~after.panicked
           /\ Len(after.text) = n
           /\ \A i \in 0..(n - 1) :
                 /\ after.text[i + 1].ch = app.text[i + 1].ch
                 /\ after.text[i + 1].style =
                       IF SelStart(app) <= i /\ i <= Min(SelEnd(app), n - 1)
                       THEN PendingStyle(app)
                       ELSE app.text[i + 1].style
           /\ after.cursor_pos = app.cursor_pos
           /\ after.selection = app.selection
           /\ after.selection_anchor = app.selection_anchor

\* a selection that covers a character and leaves out an earlier one, whose
\* styles both differ from the pending style
C8_Witness ==
    /\ IsSome(app.selection)
    /\ ~app.panicked
    /\ SelStart(app) > 0
    /\ SelStart(app) < Len(app.text)
    /\ \A k \in 1..Len(app.text) : app.text[k].style # PendingStyle(app)

\* C9: apply_style indexes no character outside the text: where the
\* selection covers no character, or there is none and the cursor is at the
\* end, it is a no-op and does not fail
C9_ApplyStyleNeverFails ==
    ~app.panicked =>
        LET after == apply_style(app)
        IN /\ ~after.panicked
           /\ (ApplyTargets(app) \cap 0..(Len(app.text) - 1) = {}) => after = app

\* C10: every dim_level of the document and the pending current_dim are in
\* 0..3, and the current_dim + 1 of cycle_dim does not overflow
C10_DimLevelInRange ==
    /\ app.current_dim \in 0..3
    /\ \A k \in 1..Len(app.text) : app.text[k].style.dim_level \in 0..3
    /\ ~app.panicked => \A overflow_checks \in BOOLEAN :
                            ~cycle_dim(app, overflow_checks).panicked

\* C3: import_ron(export_ron(D)) succeeds and returns a sequence of the
\* length of D whose i-th element has the ch and every style field of D[i]
C3_RonRoundTrip ==
    job.stage = "imported" =>
        /\ job.decoded.ok
        /\ Len(job.decoded.value) = Len(job.doc)
        /\ \A i \in 1..Len(job.doc) :
              /\ job.decoded.value[i].ch = job.doc[i].ch
              /\ \A f \in StyleFields :
                    job.decoded.value[i].style[f] = job.doc[i].style[f]

\* a round trip of two characters that differ in ch and style, done
C3_Witness ==
    /\ job.stage = "imported"
    /\ Len(job.doc) = 2
    /\ job.doc[1] # job.doc[2]
    /\ job.doc[2].style.fg.tag = "Rgb" \/ job.doc[2].style.bg.tag = "Rgb"
    /\ job.doc[1].style.dim_level = 3

\* C11: decoding a container whose version tag is not 1 fails and leaves
\* the document untouched
C11_OnlyVersionOneDecodes ==
    \A clipboard \in Clipboards :
        (/\ clipboard.ok
         /\ is_ron_format(clipboard.content)
         /\ IsSome(clipboard.content.tree)
         /\ Unwrap(clipboard.content.tree).version # 1) =>
            /\ ~import_ron(clipboard.content).ok
            /\ import_from_clipboard(app, clipboard).app.text = app.text

-----------------------------------------------------------------------------
(* The ANSI round trip: a document is encoded as an echo command, the     *)
(* command is stripped of its wrapper and the payload parsed              *)

\* longest document of the ANSI round trip
MaxEchoLen == 3

\* characters in styles that differ in every field, the characters the
\* encoder escapes, and a letter that follows a backslash in a literal escape
EchoUnits ==
    {with_style(ch, DefaultStyle) : ch \in {"a", "n", "\n", "\"", "\\"}}
    \cup {with_style("a", [DefaultStyle EXCEPT !.fg = Named("Red")]),
          with_style("\n", [DefaultStyle EXCEPT !.fg = Named("Red")]),
          with_style("a", [DefaultStyle EXCEPT !.bold = TRUE]),
          with_style("a", [DefaultStyle EXCEPT !.dim_level = 1]),
          with_style("a", [DefaultStyle EXCEPT !.dim_level = 3]),
          with_style("a", [DefaultStyle EXCEPT !.bg = Rgb(255, 0, 128),
                                               !.italic = TRUE]),
          with_style("a", [DefaultStyle EXCEPT !.fg = Indexed(200),
                                               !.underline = TRUE,
                                               !.strikethrough = TRUE])}

\* one character in every colour, as fg and as bg, and with every escaped
\* character
EchoSingles ==
    {with_style("a", [DefaultStyle EXCEPT !.fg = c]) : c \in ColorSamples}
    \cup {with_style("a", [DefaultStyle EXCEPT !.bg = c, !.bold = TRUE]) :
             c \in ColorSamples}
    \cup {with_style(ch, DefaultStyle) : ch \in {"$", BACKTICK, "!", "\t"}}

EchoDocuments ==
    SeqsUpTo(EchoUnits, MaxEchoLen) \cup {<<sc>> : sc \in EchoSingles}

EchoJob(stage, doc, output, stripped, parsed) ==
    [stage |-> stage, doc |-> doc, output |-> output, stripped |-> stripped,
     parsed |-> parsed]

InitEcho ==
    /\ app = AppDefault
    /\ job \in {EchoJob("document", doc, <<>>, <<>>, Err("")) :
                   doc \in EchoDocuments}

GenerateEcho ==
    /\ job.stage = "document"
    /\ job' = [job EXCEPT !.stage = "encoded",
                          !.output = generate_echo_command(job.doc)]
    /\ UNCHANGED app

StripWrapper ==
    /\ job.stage = "encoded"
    /\ job' = [job EXCEPT !.stage = "stripped",
                          !.stripped = strip_echo_wrapper(job.output)]
    /\ UNCHANGED app

ParseAnsi ==
    /\ job.stage = "stripped"
    /\ job' = [job EXCEPT !.stage = "parsed",
                          !.parsed = parse_ansi(job.stripped)]
    /\ UNCHANGED app

NextEcho == GenerateEcho \/ StripWrapper \/ ParseAnsi

SpecEcho == InitEcho /\ [][NextEcho]_vars

\* a document the parser can have produced: its dim levels are 0 or 1
IsParseResult(doc) == \A k \in 1..Len(doc) : doc[k].style.dim_level \in {0, 1}

\* C12: the re-parse of the encoded parse result P succeeds and has, at each
\* index, the ch and the style of P, also where P holds escaped characters
C12_EchoRoundTrip ==
    (job.stage = "parsed" /\ IsParseResult(job.doc)) =>
        /\ job.parsed.ok
        /\ Len(job.parsed.value) = Len(job.doc)
        /\ \A i \in 1..Len(job.doc) :
              /\ job.parsed.value[i].ch = job.doc[i].ch
              /\ job.parsed.value[i].style = job.doc[i].style

\* the number of places from i on where pat occurs in s
RECURSIVE Occurrences(_, _, _)
Occurrences(s, pat, i) ==
    IF i + Len(pat) - 1 > Len(s) THEN 0
    ELSE (IF StartsWithAt(s, i, pat) THEN 1 ELSE 0) + Occurrences(s, pat, i + 1)

\* the characters whose SGR parameter set differs from their predecessor's
StyleChanges(doc) ==
    {i \in 2..Len(doc) :
       new_codes_of(doc[i].style) # new_codes_of(doc[i - 1].style)}

\* the style sequence of one character
SequenceFor(style) ==
    IntroOctal \o <<"0", ";">> \o Join(new_codes_of(style), <<";">>) \o <<"m">>

\* the body of the command when a sequence stands before exactly the first
\* character and the characters of StyleChanges
RECURSIVE BodyByChanges(_, _)
BodyByChanges(doc, i) ==
    IF i > Len(doc) THEN <<>>
    ELSE (IF i = 1 \/ i \in StyleChanges(doc)
          THEN SequenceFor(doc[i].style) ELSE <<>>)
         \o EscapedChar(doc[i].ch) \o BodyByChanges(doc, i + 1)

\* C19: in the command of a document that is not empty, a style sequence
\* stands before character i exactly when i is the first character or its
\* parameter set differs from that of character i-1, so the command holds
\* (number of changes + 1) style sequences and the final reset.
C19_SequenceOnlyOnChange ==
    (job.stage = "encoded" /\ job.doc # <<>>)
      => /\ job.output = EchoPrefix \o BodyByChanges(job.doc, 1) \o ResetSuffix
         /\ Occurrences(job.output, IntroOctal, 1)
              = Cardinality(StyleChanges(job.doc)) + 1 + 1

\* two characters of one parameter set (dim 1 and dim 3) and then a bold
\* one: two style sequences and the reset
C19_Witness ==
    /\ job.stage = "encoded"
    /\ Len(job.doc) = 3
    /\ job.doc[1].style.dim_level = 1
    /\ job.doc[2].style.dim_level = 3
    /\ job.doc[3].style.bold
    /\ Occurrences(job.output, IntroOctal, 1) = 3

\* sample accumulators: the default, one with every attribute on and both
\* colours set, one with bold alone
AllOn ==
    [fg |-> Named("Red"), bg |-> Named("Blue"), bold |-> TRUE, italic |-> TRUE,
     underline |-> TRUE, strikethrough |-> TRUE, dim |-> TRUE]

SgrPriors == {ParseStateDefault, AllOn, [ParseStateDefault EXCEPT !.bold = TRUE]}

\* current_codes when the loop of generate_echo_command reaches character i
RECURSIVE CodesBefore(_, _)
CodesBefore(doc, i) ==
    IF i = 1 THEN <<>>
    ELSE EmitChar(doc[i - 1], CodesBefore(doc, i - 1)).codes

\* what the loop pushes for character i
Emitted(doc, i) == EmitChar(doc[i], CodesBefore(doc, i)).out

\* the accumulator that stands for a style
StateOf(style) ==
    [fg |-> style.fg, bg |-> style.bg, bold |-> style.bold,
     italic |-> style.italic, underline |-> style.underline,
     strikethrough |-> style.strikethrough, dim |-> style.dim_level > 0]

\* the accumulators a sequence may meet: the samples of SgrPriors and the
\* styles of the document's own characters
PriorsOf(doc) == SgrPriors \cup {StateOf(doc[k].style) : k \in 1..Len(doc)}

\* C20: every style sequence the encoder pushes reads as a parameter list
\* which, applied to any accumulator, gives the fg, bg, bold, italic,
\* underline, strikethrough of the character it was pushed for, and dim on
\* exactly when its dim_level is above 0.
C20_FullRestatement ==
    job.stage = "encoded"
      => \A i \in 1..Len(job.doc) :
           LET e == Emitted(job.doc, i)
           IN StartsWithAt(e, 1, IntroOctal)
                => LET body == SgrBody(e, Len(IntroOctal) + 1)
                   IN /\ body.ok
                      /\ \A prior \in PriorsOf(job.doc) :
                           ApplyEscapeSequence(prior, body.value.params)
                             = StateOf(job.doc[i].style)

\* a plain character after a bold one: its sequence, applied to the bold
\* accumulator and to one with every attribute on, turns them all off
C20_Witness ==
    /\ job.stage = "encoded"
    /\ Len(job.doc) >= 2
    /\ job.doc[1].style.bold
    /\ job.doc[2].style = DefaultStyle
    /\ StartsWithAt(Emitted(job.doc, 2), 1, IntroOctal)
    /\ LET body == SgrBody(Emitted(job.doc, 2), Len(IntroOctal) + 1)
       IN /\ body.ok
          /\ ApplyEscapeSequence(AllOn, body.value.params) = ParseStateDefault
          /\ ~ApplyEscapeSequence(StateOf(job.doc[1].style),
                                  body.value.params).bold

-----------------------------------------------------------------------------
\* The ANSI parser, one pair at a time (SpecAnsi): a job is a string handed
\* to parse_ansi, the pairs the grammar yields, and the loop's position, its
\* accumulator and its result.

MaxPieces == 3

Oversize == <<"9", "9", "9", "9", "9", "9", "9", "9", "9", "9", "9">>

AnsiPieces ==
    { <<"a">>,
      <<"\\", "n">>,
      <<"\\", "t">>,
      IntroRaw \o <<"1", "m">>,
      IntroOctal \o <<"3", "1", "m">>,
      IntroE \o <<"0", "m">>,
      IntroHex \o <<"m">>,
      IntroOctal \o <<"2", "m">>,
      IntroOctal \o <<"2", "2", "m">>,
      IntroOctal \o <<"4", ";", "4", "4", "m">>,
      IntroOctal \o <<"1", ";", "0", ";", "3", "m">>,
      IntroOctal \o Oversize \o <<"m">>,
      IntroOctal \o <<"1">> }

RECURSIVE Concat(_)
Concat(pieces) ==
    IF pieces = <<>> THEN <<>> ELSE Head(pieces) \o Concat(Tail(pieces))

AnsiInputs == {Concat(ps) : ps \in SeqsUpTo(AnsiPieces, MaxPieces)}

AnsiJob(stage, input, tokens, k, state, result) ==
    [stage |-> stage, input |-> input, tokens |-> tokens, k |-> k,
     state |-> state, result |-> result]

InitAnsi ==
    /\ app = AppDefault
    /\ job \in {AnsiJob("input", s, <<>>, 0, ParseStateDefault, <<>>) :
                  s \in AnsiInputs}

\* AnsiParser::parse and ParseState::default (import.rs 306-310)
ParsePairs ==
    /\ job.stage = "input"
    /\ LET t == Tokenize(job.input, 1, <<>>)
       IN job' = IF t.ok
                 THEN AnsiJob("parsing", job.input, t.value, 1,
                              ParseStateDefault, <<>>)
                 ELSE [job EXCEPT !.stage = "failed"]
    /\ UNCHANGED app

\* one iteration of the loop (import.rs 314-353)
NextPair ==
    /\ job.stage = "parsing"
    /\ job.k <= Len(job.tokens)
    /\ LET r == ParseToken(job.state, job.result, job.tokens[job.k])
       IN job' = [job EXCEPT !.k = job.k + 1, !.state = r.state,
                             !.result = r.result]
    /\ UNCHANGED app

\* Ok(result) (import.rs 358)
ReturnResult ==
    /\ job.stage = "parsing"
    /\ job.k > Len(job.tokens)
    /\ job' = [job EXCEPT !.stage = "parsed"]
    /\ UNCHANGED app

NextAnsi == ParsePairs \/ NextPair \/ ReturnResult

SpecAnsi == InitAnsi /\ [][NextAnsi]_vars

\* the parameter values of a list
Codes(params) ==
    {IF params[k].hi = 0 THEN params[k].lo ELSE 256 : k \in 1..Len(params)}

FgSelectors == (30..39) \cup (90..97)
BgSelectors == (40..49) \cup (100..107)

\* what a sequence with the parameter values cs may change of the state st
KeepsWhatItDoesNotName(st, st2, cs) ==
    /\ (st.bold /\ 22 \notin cs) => st2.bold
    /\ (st.dim /\ 22 \notin cs) => st2.dim
    /\ (st.italic /\ 23 \notin cs) => st2.italic
    /\ (st.underline /\ 24 \notin cs) => st2.underline
    /\ (st.strikethrough /\ 29 \notin cs) => st2.strikethrough
    /\ (cs \cap FgSelectors = {}) => st2.fg = st.fg
    /\ (cs \cap BgSelectors = {}) => st2.bg = st.bg

C18_StampedAtEmission ==
    /\ [](job.stage \in {"parsing", "parsed"}
            => \A j \in 1..Len(job.result) :
                 job.result[j].style.dim_level \in {0, 1})
    /\ [][(job.stage = "parsing" /\ job'.stage \in {"parsing", "parsed"})
            => /\ Len(job'.result) >= Len(job.result)
               /\ SubSeq(job'.result, 1, Len(job.result)) = job.result
               /\ Len(job'.result) > Len(job.result)
                    => LET style == job'.result[Len(job'.result)].style
                           st == job.state
                       IN /\ Len(job'.result) = Len(job.result) + 1
                          /\ style.fg = st.fg
                          /\ style.bg = st.bg
                          /\ style.bold = st.bold
                          /\ style.italic = st.italic
                          /\ style.underline = st.underline
                          /\ style.strikethrough = st.strikethrough
                          /\ style.dim_level = IF st.dim THEN 1 ELSE 0]_vars

\* a character was pushed dim, and a later sequence turned dim off
C18_Witness ==
    /\ job.stage = "parsing"
    /\ Len(job.result) >= 1
    /\ job.result[1].style.dim_level = 1
    /\ ~job.state.dim
    /\ job.k > 2
    /\ job.tokens[job.k - 1].kind = "escape_sequence"

-----------------------------------------------------------------------------
\* One escape sequence, one parameter at a time (SpecSgr): a job is the
\* accumulator before the sequence (prior), the parameters as the grammar
\* hands them over (raw, runs of digits), the list parse_ansi collects from
\* them, the loop index i and the accumulator.

MaxGroups == 2

ParamGroups ==
    { <<Dec(0)>>, <<Dec(1)>>, <<Dec(2)>>, <<Dec(4)>>, <<Dec(22)>>, <<Dec(23)>>,
      <<Dec(24)>>, <<Dec(29)>>, <<Dec(31)>>, <<Dec(99)>>, <<Oversize>>,
      <<Dec(38), Dec(5), Dec(1)>>,
      <<Dec(38), Dec(2), Dec(1), Dec(2), Dec(3)>>,
      <<Dec(48), Dec(5), Dec(200)>>,
      <<Dec(48), Dec(2), Dec(255), Dec(0), Dec(128)>>,
      <<Dec(38), Dec(5), Dec(300)>>,
      <<Dec(48), Dec(2), Dec(256), Dec(511), Dec(1000)>>,
      <<Dec(38), Dec(2), Dec(1), Dec(4)>>,
      <<Dec(38), Dec(5)>>,
      <<Dec(38), Dec(7), Dec(1)>>,
      <<Dec(48), Dec(2)>>,
      <<Dec(48)>> }

RawLists == {Concat(gs) : gs \in SeqsUpTo(ParamGroups, MaxGroups)}

SgrJob(stage, prior, raw, params, i, state) ==
    [stage |-> stage, prior |-> prior, raw |-> raw, params |-> params,
     i |-> i, state |-> state]

InitSgr ==
    /\ app = AppDefault
    /\ job \in {SgrJob("collect", st, raw, <<>>, 0, st) :
                  st \in SgrPriors, raw \in RawLists}

\* let params: Vec<u32> = ... collect(); let mut i = 0 (import.rs 333-340)
CollectSequence ==
    /\ job.stage = "collect"
    /\ job' = [job EXCEPT !.stage = "apply", !.params = CollectParams(job.raw)]
    /\ UNCHANGED app

\* apply_sgr_param(&mut state, &params, &mut i); i += 1 (import.rs 341-344)
ApplyParam ==
    /\ job.stage = "apply"
    /\ job.i < Len(job.params)
    /\ LET r == apply_sgr_param(job.state, job.params, job.i)
       IN job' = [job EXCEPT !.state = r.state, !.i = r.index + 1]
    /\ UNCHANGED app

\* the end of the loop and the reset of an empty list (import.rs 346-349)
FinishSequence ==
    /\ job.stage = "apply"
    /\ job.i >= Len(job.params)
    /\ job' = [job EXCEPT !.stage = "done",
                          !.state = IF job.params = <<>>
                                    THEN ParseStateDefault ELSE job.state]
    /\ UNCHANGED app

NextSgr == CollectSequence \/ ApplyParam \/ FinishSequence

SpecSgr == InitSgr /\ [][NextSgr]_vars

\* the value of a collected parameter, as the match of apply_sgr_param sees it
CodeOf(p) == IF p.hi = 0 THEN p.lo ELSE 256

\* a step of the loop that reads the parameter at the 0-based index job.i
StepAt(code) ==
    /\ job.stage = "apply"
    /\ job'.stage = "apply"
    /\ job.i < Len(job.params)
    /\ job' # job
    /\ CodeOf(job.params[job.i + 1]) = code

SetColor(st, code, color) ==
    IF code = 38 THEN [st EXCEPT !.fg = color] ELSE [st EXCEPT !.bg = color]

\* C14: at 38 (48), a selector 5 with its operand sets fg (bg) to
\* Indexed(n) and the loop resumes after the operand; a selector 2 with its
\* three operands sets Rgb(r, g, b) and the loop resumes after them; nothing
\* else of the accumulator changes, and a parameter read at any other
\* position acts as it would standing alone. 38;5;1;4 on the default
\* accumulator gives fg Indexed(1), underline on, bold off.
C14_ExtendedColourConsumesOperands ==
    /\ [][\A code \in {38, 48} :
            StepAt(code) =>
              LET ps == job.params
                  i == job.i
              IN /\ (i + 2 < Len(ps) /\ ps[i + 2] = U32(5) /\ ps[i + 3].hi = 0)
                      => /\ job'.i = i + 3
                         /\ job'.state
                              = SetColor(job.state, code, Indexed(ps[i + 3].lo))
                 /\ (i + 4 < Len(ps) /\ ps[i + 2] = U32(2)
                       /\ ps[i + 3].hi = 0 /\ ps[i + 4].hi = 0 /\ ps[i + 5].hi = 0)
                      => /\ job'.i = i + 5
                         /\ job'.state
                              = SetColor(job.state, code,
                                         Rgb(ps[i + 3].lo, ps[i + 4].lo,
                                             ps[i + 5].lo))]_vars
    /\ [][\A code \in (0..256) \ {38, 48} :
            StepAt(code) =>
              /\ job'.i = job.i + 1
              /\ job'.state
                   = ApplyParamsFrom(job.state, <<job.params[job.i + 1]>>, 0)]_vars
    /\ []((job.stage = "done" /\ job.prior = ParseStateDefault
             /\ job.raw = <<Dec(38), Dec(5), Dec(1), Dec(4)>>)
            => job.state = [ParseStateDefault EXCEPT !.fg = Indexed(1),
                                                     !.underline = TRUE])

\* 38;5;1;4 was applied to the default accumulator
C14_Witness ==
    /\ job.stage = "done"
    /\ job.prior = ParseStateDefault
    /\ job.raw = <<Dec(38), Dec(5), Dec(1), Dec(4)>>
    /\ job.state.fg = Indexed(1)
    /\ job.state.underline
    /\ ~job.state.bold

\* the extended colour at the 0-based index i of params is short or malformed
ShortExtended(params, i) ==
    LET n == Len(params)
    IN \/ i + 1 >= n
       \/ /\ i + 1 < n
          /\ \/ params[i + 2] = U32(2) /\ i + 4 >= n
             \/ params[i + 2] = U32(5) /\ i + 2 >= n
             \/ params[i + 2] \notin {U32(2), U32(5)}

\* C15: when the loop stands at a 38 or 48 whose extended colour is short or
\* malformed, processing the list from there on changes no field of the
\* accumulator.
C15_ShortExtendedIgnored ==
    (/\ job.stage = "apply"
     /\ job.i < Len(job.params)
     /\ CodeOf(job.params[job.i + 1]) \in {38, 48}
     /\ ShortExtended(job.params, job.i))
      => ApplyParamsFrom(job.state, job.params, job.i) = job.state

CodeTable == {0, 1, 2, 3, 4, 9, 22, 23, 24, 29} \cup (30..49) \cup (90..107)

\* a parameter, as written, that names no code of the table
IsUnknownCode(digits) ==
    LET v == ParseU32(digits)
    IN IsNone(v) \/ CodeOf(Unwrap(v)) \notin CodeTable

\* C16: a sequence whose parameters all name no code of the table, whatever
\* their magnitude, leaves the accumulator as it was.
C16_UnknownParamsIgnored ==
    (/\ job.stage = "done"
     /\ job.raw # <<>>
     /\ \A k \in 1..Len(job.raw) : IsUnknownCode(job.raw[k]))
      => job.state = job.prior

\* C17: code 22 turns off bold and dim and nothing else; 23, 24 and 29 turn
\* off italic, underline and strikethrough and nothing else.
C17_OffCodes ==
    /\ [][StepAt(22) => job'.state = [job.state EXCEPT !.bold = FALSE,
                                                       !.dim = FALSE]]_vars
    /\ [][StepAt(23) => job'.state = [job.state EXCEPT !.italic = FALSE]]_vars
    /\ [][StepAt(24) => job'.state = [job.state EXCEPT !.underline = FALSE]]_vars
    /\ [][StepAt(29) => job'.state
                          = [job.state EXCEPT !.strikethrough = FALSE]]_vars

\* 22 was applied to an accumulator with every attribute on
C17_Witness ==
    /\ job.stage = "apply"
    /\ job.prior = AllOn
    /\ job.i = 1
    /\ job.params[1] = U32(22)
    /\ job.state = [AllOn EXCEPT !.bold = FALSE, !.dim = FALSE]

-----------------------------------------------------------------------------
\* The shape of the echo command (SpecEcho)

\* s ends with p
EndsWith(s, p) ==
    Len(s) >= Len(p) /\ SubSeq(s, Len(s) - Len(p) + 1, Len(s)) = p

\* C21: the command of the empty document is exactly `echo -e ""`; the
\* command of any other document starts with `echo -e "` and ends with the
\* literal reset \033[0m and the closing double quote.
C21_CommandShape ==
    job.stage = "encoded"
      => IF job.doc = <<>>
         THEN job.output = <<"e", "c", "h", "o", " ", "-", "e", " ", "\"", "\"">>
         ELSE /\ StartsWithAt(job.output, 1,
                     <<"e", "c", "h", "o", " ", "-", "e", " ", "\"">>)
              /\ EndsWith(job.output,
                     <<"\\", "0", "3", "3", "[", "0", "m", "\"">>)

\* the empty document was encoded
C21_Witness ==
    /\ job.stage = "encoded"
    /\ job.doc = <<>>
    /\ Len(job.output) = 10

\* the text between `echo -e "` and the closing double quote
Payload(output) == SubSeq(output, 10, Len(output) - 1)

\* the payload read from position i on as a shell would inside double
\* quotes, the style sequences left out: a backslash and the character
\* after it form one unit, any other character is a unit of its own;
\* AfterFinalByte is the position after the m that ends a style sequence
RECURSIVE AfterFinalByte(_, _)
AfterFinalByte(s, i) ==
    IF i > Len(s) THEN i
    ELSE IF s[i] = "m" THEN i + 1 ELSE AfterFinalByte(s, i + 1)

RECURSIVE ContentUnits(_, _)
ContentUnits(s, i) ==
    IF i > Len(s) THEN <<>>
    ELSE IF StartsWithAt(s, i, IntroOctal)
         THEN ContentUnits(s, AfterFinalByte(s, i + Len(IntroOctal)))
    ELSE IF s[i] = "\\" /\ i < Len(s)
         THEN <<SubSeq(s, i, i + 1)>> \o ContentUnits(s, i + 2)
    ELSE <<<<s[i]>>>> \o ContentUnits(s, i + 1)

ShellSpecials == {"\"", "\\", "$", BACKTICK, "!"}

\* what a document character is to contribute
ShellEscape(ch) ==
    IF ch = "\n" THEN <<"\\", "n">>
    ELSE IF ch \in ShellSpecials THEN <<"\\", ch>>
    ELSE <<ch>>

\* C22: the payload holds, in document order, one unit per document
\* character: backslash + n for a newline, backslash + the character for a
\* double quote, backslash, dollar, backtick or exclamation mark, and the
\* character itself otherwise; so no double quote, dollar, backtick or
\* exclamation mark stands in the payload without a backslash before it.
C22_EscapedInOrder ==
    (job.stage = "encoded" /\ job.doc # <<>>)
      => LET units == ContentUnits(Payload(job.output), 1)
         IN /\ units = [i \in 1..Len(job.doc) |-> ShellEscape(job.doc[i].ch)]
            /\ \A k \in 1..Len(units) :
                 Len(units[k]) = 1 => units[k][1] \notin ShellSpecials

\* a backslash followed by a double quote was encoded
C22_Witness ==
    /\ job.stage = "encoded"
    /\ Len(job.doc) = 2
    /\ job.doc[1].ch = "\\"
    /\ job.doc[2].ch = "\""
    /\ ContentUnits(Payload(job.output), 1) = << <<"\\", "\\">>, <<"\\", "\"">> >>

-----------------------------------------------------------------------------
\* The decoding of import_from_clipboard, one call at a time (SpecImport): a
\* job is the clipboard content, the decoder it was routed to, the stripped
\* text and the Result of the decoder.

MaxBodyLen == 3

WrapperLeads == {<<>>, <<" ">>, <<"\n", " ">>}

\* the eight wrapper prefixes
RecognizedWrappers ==
    {WrapperPrefixes[k] : k \in 1..Len(WrapperPrefixes)}
    \cup {PrefixEchoAnsiC, PrefixEchoEAnsiC}

\* the wrappers, no wrapper, and two commands that are none of them
WrapperHeads ==
    RecognizedWrappers
    \cup {<<>>, <<"e", "c", "h", "o">>,
          <<"e", "c", "h", "o", " ", "-", "n", " ", "\"">>}

WrapperBodies == SeqsUpTo({"a", "\"", "'", " "}, MaxBodyLen)

WrappedTexts ==
    {Text(lead \o head \o body, Malformed) :
       lead \in WrapperLeads, head \in WrapperHeads, body \in WrapperBodies}

SampleTree == Some([version |-> 1, chars |-> <<RonChar("a", SerReset, TRUE, 0)>>])

\* structured texts: a document, one after white space, one under its type
\* name, one that is no document, and two documents behind a comment
StructuredTexts ==
    {Text(<<"(">>, SampleTree),
     Text(<<" ", "\n", "(">>, SampleTree),
     Text(StyledDocumentName \o <<"(">>, SampleTree),
     Text(<<"(", "a">>, Malformed),
     Text(StyledDocumentName, Malformed),
     Text(<<"/", "/", "\n", "(">>, SampleTree),
     Text(<<"/", "*", ESC, "*", "/", "(">>, SampleTree)}

ImportJob(stage, content, route, stripped, result) ==
    [stage |-> stage, content |-> content, route |-> route,
     stripped |-> stripped, result |-> result]

InitImport ==
    /\ app = AppDefault
    /\ job \in {ImportJob("clipboard", content, "", <<>>, Err("")) :
                  content \in WrappedTexts \cup StructuredTexts}

\* if is_ron_format(&content) (import.rs 440)
DetectFormat ==
    /\ job.stage = "clipboard"
    /\ job' = [job EXCEPT !.stage = "routed",
                          !.route = IF is_ron_format(job.content)
                                    THEN "ron" ELSE "ansi"]
    /\ UNCHANGED app

\* import_ron(&content)? (import.rs 441)
DecodeRon ==
    /\ job.stage = "routed"
    /\ job.route = "ron"
    /\ job' = [job EXCEPT !.stage = "done", !.result = import_ron(job.content)]
    /\ UNCHANGED app

\* let stripped = strip_echo_wrapper(&content) (import.rs 444)
StripEcho ==
    /\ job.stage = "routed"
    /\ job.route = "ansi"
    /\ job' = [job EXCEPT !.stage = "stripped",
                          !.stripped = strip_echo_wrapper(job.content.chars)]
    /\ UNCHANGED app

\* parse_ansi(stripped)? (import.rs 447)
ParseStripped ==
    /\ job.stage = "stripped"
    /\ job' = [job EXCEPT !.stage = "done", !.result = parse_ansi(job.stripped)]
    /\ UNCHANGED app

NextImport == DetectFormat \/ DecodeRon \/ StripEcho \/ ParseStripped

SpecImport == InitImport /\ [][NextImport]_vars

\* C23: when the trimmed input starts with one of the eight prefixes and
\* the text after the prefix holds the prefix's quote character,
\* strip_echo_wrapper returns that text up to, not including, the last
\* occurrence of the quote; in every other case it returns the input as it
\* is, white space included.
C23_StripToLastQuote ==
    job.stage = "stripped"
      => LET input == job.content.chars
             trimmed == Trim(input)
             matching == {p \in RecognizedWrappers :
                            /\ StartsWithAt(trimmed, 1, p)
                            /\ \E k \in (Len(p) + 1)..Len(trimmed) :
                                 trimmed[k] = p[Len(p)]}
         IN IF matching = {}
            THEN job.stripped = input
            ELSE \A p \in matching :
                   \E k \in (Len(p) + 1)..Len(trimmed) :
                     /\ trimmed[k] = p[Len(p)]
                     /\ \A j \in (k + 1)..Len(trimmed) : trimmed[j] # p[Len(p)]
                     /\ job.stripped = SubSeq(trimmed, Len(p) + 1, k - 1)

\* a wrapped text with a quote inside the payload was stripped at its last
\* quote
C23_Witness ==
    /\ job.stage = "stripped"
    /\ job.content.chars
         = <<" ">> \o WrapperPrefixes[3] \o <<"a", "\"", "\"">>
    /\ job.stripped = <<"a", "\"">>

\* C24: the content is handed to the structured decoder exactly when its
\* trimmed text starts with "(" or with StyledDocument, and to wrapper
\* stripping and the ANSI parser otherwise; the Result is that of the
\* decoder chosen, also when it is an error the other decoder would not
\* have returned, and import_from_clipboard returns an error exactly then.
C24_FormatDetection ==
    LET trimmed == Trim(job.content.chars)
        structured == \/ (trimmed # <<>> /\ trimmed[1] = "(")
                      \/ /\ Len(trimmed) >= Len(StyledDocumentName)
                         /\ SubSeq(trimmed, 1, Len(StyledDocumentName))
                              = StyledDocumentName
    IN /\ job.stage # "clipboard" => (job.route = "ron" <=> structured)
       /\ job.stage = "stripped" => job.route = "ansi"
       /\ job.stage = "done"
            => /\ job.result = IF structured THEN import_ron(job.content)
                               ELSE parse_ansi(strip_echo_wrapper(job.content.chars))
               /\ LET r == import_from_clipboard(AppDefault,
                                                 Clipboard(TRUE, job.content))
                  IN /\ r.result.ok = job.result.ok
                     /\ job.result.ok => r.app.text = job.result.value

\* a text that is no document was routed to the structured decoder and
\* failed, though the ANSI parser would have read it
C24_Witness ==
    /\ job.stage = "done"
    /\ job.route = "ron"
    /\ job.content.chars = StyledDocumentName
    /\ ~job.result.ok
    /\ parse_ansi(strip_echo_wrapper(job.content.chars)).ok

-----------------------------------------------------------------------------
\* The editing operations, one by one (Spec)

\* C25: insert_char(c) with the cursor at p in a text of length n gives
\* length n + 1 and cursor p + 1; index p holds c in the pending style, the
\* characters before p are as they were, those from p on are one index
\* further with ch and style as they were; the pending style is as it was.
C25_InsertChar ==
    ~app.panicked =>
      \A c \in Chars :
        LET after == insert_char(app, c)
            p == app.cursor_pos
            n == Len(app.text)
        IN /\ ~after.panicked
           /\ Len(after.text) = n + 1
           /\ after.cursor_pos = p + 1
           /\ after.text[p + 1] = [ch |-> c, style |-> PendingStyle(app)]
           /\ \A i \in 1..p : after.text[i] = app.text[i]
           /\ \A i \in (p + 1)..n : after.text[i + 1] = app.text[i]
           /\ PendingStyle(after) = PendingStyle(app)

\* the cursor stands between a character in the pending style and one in
\* another style
C25_Witness ==
    /\ ~app.panicked
    /\ Len(app.text) = 2
    /\ app.cursor_pos = 1
    /\ app.text[1].style = PendingStyle(app)
    /\ app.text[2].style # PendingStyle(app)

\* C26: with the cursor at 0, move_left and delete_char leave the whole
\* App as it is; with the cursor at the end of the text, move_right and
\* delete_char_forward leave the whole App as it is.
C26_NoOpAtTheEdges ==
    ~app.panicked =>
      /\ app.cursor_pos = 0 => (move_left(app) = app /\ delete_char(app) = app)
      /\ app.cursor_pos = Len(app.text)
           => (move_right(app) = app /\ delete_char_forward(app) = app)

\* a selection anchored at the start of a text that is not empty, with the
\* cursor at the start or at the end
C26_Witness ==
    /\ ~app.panicked
    /\ app.text # <<>>
    /\ app.mode = "Selecting"
    /\ app.selection_anchor = Some(0)
    /\ app.cursor_pos \in {0, Len(app.text)}

\* C27: in Selecting mode the selection is (min(anchor, cursor),
\* max(anchor, cursor)); and while the mode stays Selecting, a step other
\* than a start_selection leaves the anchor where it is.
C27_SelectionFollowsCursor ==
    /\ []((app.mode = "Selecting" /\ ~app.panicked)
            => /\ IsSome(app.selection_anchor)
               /\ app.selection
                    = Some(<<Min(Unwrap(app.selection_anchor), app.cursor_pos),
                             Max(Unwrap(app.selection_anchor), app.cursor_pos)>>))
    /\ [][(app.mode = "Selecting" /\ app'.mode = "Selecting" /\ ~app'.panicked)
            => \/ app'.selection_anchor = app.selection_anchor
               \/ app' = start_selection(app)]_vars

\* the cursor was moved to the left of the anchor while selecting
C27_Witness ==
    /\ app.mode = "Selecting"
    /\ ~app.panicked
    /\ IsSome(app.selection_anchor)
    /\ app.cursor_pos < Unwrap(app.selection_anchor)
    /\ app.selection = Some(<<app.cursor_pos, Unwrap(app.selection_anchor)>>)

\* C28: start_selection sets the anchor to the cursor, the selection to
\* (cursor, cursor) and the mode to Selecting, and nothing else, also when a
\* selection with another anchor exists.
C28_StartSelection ==
    ~app.panicked =>
      LET after == start_selection(app)
      IN /\ after.selection_anchor = Some(app.cursor_pos)
         /\ after.selection = Some(<<app.cursor_pos, app.cursor_pos>>)
         /\ after.mode = "Selecting"
         /\ after.text = app.text
         /\ after.cursor_pos = app.cursor_pos
         /\ PendingStyle(after) = PendingStyle(app)
         /\ after = [app EXCEPT !.selection_anchor = after.selection_anchor,
                                !.selection = after.selection,
                                !.mode = after.mode]

\* a selection whose anchor is not at the cursor
C28_Witness ==
    /\ ~app.panicked
    /\ app.mode = "Selecting"
    /\ IsSome(app.selection_anchor)
    /\ Unwrap(app.selection_anchor) # app.cursor_pos
    /\ app.text # <<>>

\* C29: clear_selection sets selection and anchor to None, turns Selecting
\* mode into Normal and leaves Normal and Typing as they are, and changes
\* nothing else.
C29_ClearSelection ==
    ~app.panicked =>
      LET after == clear_selection(app)
      IN /\ after.selection = None
         /\ after.selection_anchor = None
         /\ app.mode = "Selecting" => after.mode = "Normal"
         /\ app.mode = "Typing" => after.mode = "Typing"
         /\ app.mode = "Normal" => after.mode = "Normal"
         /\ after.text = app.text
         /\ after.cursor_pos = app.cursor_pos
         /\ PendingStyle(after) = PendingStyle(app)
         /\ after = [app EXCEPT !.selection = None, !.selection_anchor = None,
                                !.mode = after.mode]

\* Typing mode after a character was typed: insert_char has called
\* clear_selection and the mode is still Typing
C29_Witness ==
    /\ ~app.panicked
    /\ app.mode = "Typing"
    /\ app.text # <<>>
    /\ app.cursor_pos > 0
    /\ app.selection = None

\* the characters a style operation is aimed at: those of the selection
\* that exist, or the one at the cursor
TargetedChars(a) ==
    IF IsSome(a.selection)
    THEN {i \in 0..(Len(a.text) - 1) : SelStart(a) <= i /\ i <= SelEnd(a)}
    ELSE {i \in 0..(Len(a.text) - 1) : i = a.cursor_pos}

\* after a toggle the pending style is `pending`, every targeted character
\* carries it, and nothing else of the App differs; the call fails only on
\* a selection over an empty text
ToggledTo(before, after, pending) ==
    IF after.panicked
    THEN IsSome(before.selection) /\ before.text = <<>>
    ELSE /\ PendingStyle(after) = pending
         /\ Len(after.text) = Len(before.text)
         /\ \A i \in TargetedChars(before) : after.text[i + 1].style = pending
         /\ \A i \in 0..(Len(before.text) - 1) :
              /\ after.text[i + 1].ch = before.text[i + 1].ch
              /\ i \notin TargetedChars(before)
                   => after.text[i + 1].style = before.text[i + 1].style
         /\ after.cursor_pos = before.cursor_pos
         /\ after.selection = before.selection
         /\ after.mode = before.mode

C31_LoadStyleFromCursor ==
    ~app.panicked =>
      LET after == load_style_from_cursor(app)
      IN /\ app.cursor_pos < Len(app.text)
              => PendingStyle(after) = app.text[app.cursor_pos + 1].style
         /\ app.cursor_pos = Len(app.text) => after = app
         /\ ~after.panicked
         /\ after.text = app.text
         /\ after.cursor_pos = app.cursor_pos
         /\ after.selection = app.selection
         /\ after.selection_anchor = app.selection_anchor
         /\ after.mode = app.mode

\* the cursor stands, inside a selection, on a dim character while the
\* pending dim is another
C31_Witness ==
    /\ ~app.panicked
    /\ app.cursor_pos < Len(app.text)
    /\ app.text[app.cursor_pos + 1].style.dim_level # app.current_dim
    /\ app.text[app.cursor_pos + 1].style.dim_level > 0
    /\ IsSome(app.selection)

-----------------------------------------------------------------------------
\* The mouse and key dispatchers (SpecKeys)

\* mouse events that are no button press: release, drag, move, scroll
NonPressEvents ==
    {MouseEventOf(kind, button, column, row) :
       kind \in {"Up", "Drag", "Moved", "ScrollDown", "ScrollUp"},
       button \in {"Left", "Right", "Middle", "None"},
       column \in 2..4, row \in 3..4}

\* C32: a mouse event that is no button press leaves the whole App as it
\* is, whichever panel is active.
C32_NonPressIgnored ==
    ~app.panicked =>
      \A mouse_event \in NonPressEvents, env \in MouseEnvs :
        handle_mouse_event(app, mouse_event, TerminalArea, env) = app

\* a state with text and a status message, no selection yet, in which a
\* press in the editor would start one
C32_Witness ==
    /\ ~app.panicked
    /\ app.active_panel = "Editor"
    /\ app.mode # "Selecting"
    /\ app.text # <<>>
    /\ IsSome(app.status_message)

\* the text position handle_editor_mouse_input computes for a press
ClickPosition(mouse_event, terminal_area) ==
    saturating_sub(mouse_event.row, terminal_area.y + 3)
      * saturating_sub(terminal_area.width, 4)
    + saturating_sub(mouse_event.column, terminal_area.x + 2)

\* left presses at positions inside and beyond the text
LeftPresses ==
    {MouseEventOf("Down", "Left", column, row) : column \in 2..4, row \in 3..4}

\* C33: after a left press with the Editor panel active the mode is
\* Selecting and a selection exists, whatever the mode was; when the mode
\* was not Selecting the anchor is the cursor of before the press; the
\* cursor is the computed position when that is at most the length of the
\* text and is as before otherwise.
C33_EditorPressSelects ==
    (~app.panicked /\ app.active_panel = "Editor") =>
      \A mouse_event \in LeftPresses, env \in MouseEnvs :
        LET after == handle_mouse_event(app, mouse_event, TerminalArea, env)
            text_pos == ClickPosition(mouse_event, TerminalArea)
        IN /\ ~after.panicked
           /\ after.mode = "Selecting"
           /\ IsSome(after.selection)
           /\ app.mode # "Selecting"
                => after.selection_anchor = Some(app.cursor_pos)
           /\ app.mode = "Selecting"
                => after.selection_anchor = app.selection_anchor
           /\ after.cursor_pos = IF text_pos <= Len(app.text) THEN text_pos
                                 ELSE app.cursor_pos
           /\ after.text = app.text

\* Typing mode with the cursor behind a character: a press at the start of
\* the text selects back from the cursor
C33_Witness ==
    /\ ~app.panicked
    /\ app.active_panel = "Editor"
    /\ app.mode = "Typing"
    /\ app.cursor_pos = 1
    /\ Len(app.text) = 1
    /\ handle_mouse_event(app, MouseEventOf("Down", "Left", 2, 3), TerminalArea,
                          Env(Clipboard(FALSE, EmptyText), FALSE, 0)).selection
         = Some(<<0, 1>>)


-----------------------------------------------------------------------------
(* The colour pickers driven by keys and by the mouse *)

\* the keys that move or set a picker's cursor, those that change the panel
\* or the mode, and those that load or restore the pending style
PickerKeys ==
    {Key(code, FALSE) :
        code \in {"Left", "Right", "Up", "Down", "h", "j", "k", "l", "Enter",
                  "Tab", "BackTab", "Esc", "f", "g", "r", "v", "i", "a",
                  "0", "8", "9"}}

\* left presses over both rows of a picker, before, on and past its last
\* column, and below its rows
PickerPresses ==
    {MouseEventOf("Down", "Left", column, row) :
        column \in {0, 1, 5, 33, 37, 45}, row \in 1..3}

\* the states the picker-driven editor explores: the document stays empty,
\* so that a pick restyles no character, and one picker at a time has its
\* cursor moved off the palette entry App::default puts it on
PickerBounded(a) ==
    /\ Bounded(a)
    /\ a.text = <<>>
    /\ \/ a.fg_color_index = AppDefault.fg_color_index
       \/ a.bg_color_index = AppDefault.bg_color_index

PickerKey ==
    \E key \in PickerKeys :
        LET after == handle_key_event(app, key,
                                      Env(Clipboard(FALSE, EmptyText), FALSE, 0))
        IN /\ Running
           /\ PickerBounded(after)
           /\ app' = after
           /\ UNCHANGED job

PickerMouse ==
    \E mouse_event \in PickerPresses :
        LET after == handle_mouse_event(app, mouse_event, TerminalArea,
                                        Env(Clipboard(FALSE, EmptyText), FALSE, 0))
        IN /\ Running
           /\ PickerBounded(after)
           /\ app' = after
           /\ UNCHANGED job

NextPicker == PickerKey \/ PickerMouse

SpecPicker == Init /\ [][NextPicker]_vars

ResetKeys == {Key(code, FALSE) : code \in {"r", "R"}}

-----------------------------------------------------------------------------
(* The import into the editor *)

\* what the detected decoder makes of a clipboard content
Decoded(content) ==
    IF is_ron_format(content) THEN import_ron(content)
    ELSE parse_ansi(strip_echo_wrapper(content.chars))

\* C36: after an import that succeeds the text is the decoded sequence of
\* characters, the cursor is at its end, there is no selection and no
\* anchor, the mode is not Selecting (Selecting became Normal, any other
\* mode is kept), and the pending style and the picker cursors are as before
C36_ImportInstallsDocument ==
    ~app.panicked =>
      \A clipboard \in Clipboards :
        LET r == import_from_clipboard(app, clipboard)
            after == r.app
        IN r.result.ok =>
             /\ clipboard.ok
             /\ Decoded(clipboard.content).ok
             /\ after.text = Decoded(clipboard.content).value
             /\ after.cursor_pos = Len(after.text)
             /\ after.selection = None
             /\ after.selection_anchor = None
             /\ after.mode # "Selecting"
             /\ after.mode = (IF app.mode = "Selecting" THEN "Normal" ELSE app.mode)
             /\ PendingStyle(after) = PendingStyle(app)
             /\ after.fg_color_index = app.fg_color_index
             /\ after.bg_color_index = app.bg_color_index
             /\ ~after.panicked

\* a selection is active over a text, the pending style is not the default,
\* and the clipboard holds a document of another length than the cursor
C36_Witness ==
    /\ ~app.panicked
    /\ app.mode = "Selecting"
    /\ IsSome(app.selection)
    /\ IsSome(app.selection_anchor)
    /\ app.text # <<>>
    /\ PendingStyle(app) # DefaultStyle
    /\ \E clipboard \in Clipboards :
         LET r == import_from_clipboard(app, clipboard)
         IN /\ r.result.ok
            /\ r.app.text # app.text
            /\ Len(r.app.text) # app.cursor_pos


-----------------------------------------------------------------------------
(* apply_style applied again *)

\* the four toggles and cycle_dim, each of which ends with apply_style
ToggleOutcomes(a) ==
    {toggle_bold(a), toggle_italic(a), toggle_underline(a),
     toggle_strikethrough(a)}
    \cup {cycle_dim(a, overflow_checks) : overflow_checks \in BOOLEAN}

\* C37: where apply_style does not fail, a second apply_style right after
\* the first changes nothing; so the apply_style that the formatting mouse
\* handler issues after a toggle leaves the App as the toggle left it
C37_ApplyStyleIdempotent ==
    ~app.panicked =>
      LET once == apply_style(app)
      IN /\ ~once.panicked =>
              /\ ~apply_style(once).panicked
              /\ apply_style(once) = once
         /\ \A t \in ToggleOutcomes(app) :
              ~t.panicked => apply_style(t) = t

\* apply_style has something to write: a targeted character is in another
\* style than the pending one
C37_Witness ==
    /\ ~app.panicked
    /\ ~apply_style(app).panicked
    /\ apply_style(app) # app
    /\ IsSome(app.selection)


-----------------------------------------------------------------------------
(* Extended colour operands beyond eight bits *)

\* the number a run of decimal digits writes
RECURSIVE DecValue(_)
DecValue(digits) ==
    IF digits = <<>> THEN 0
    ELSE DecValue(SubSeq(digits, 1, Len(digits) - 1)) * 10
         + DigitVal(digits[Len(digits)])

-----------------------------------------------------------------------------
(* The standalone editor of main.rs: its own App, driven key by key *)

\* the text handle_normal_mode writes at q
QuitText ==
    <<"q", "u", "i", "t">>

\* the text handle_export_mode writes at c when the copy succeeded
CopiedText ==
    <<"C", "o", "p", "i", "e", "d", " ", "t", "o", " ", "c", "l", "i", "p",
      "b", "o", "a", "r", "d", "!">>

\* the text handle_export_mode writes at c when set_contents failed
CopyFailedText ==
    <<"F", "a", "i", "l", "e", "d", " ", "t", "o", " ", "c", "o", "p", "y",
      " ", "t", "o", " ", "c", "l", "i", "p", "b", "o", "a", "r", "d">>

\* the text handle_export_mode writes at c when no clipboard context could be made
NoClipboardText ==
    <<"C", "l", "i", "p", "b", "o", "a", "r", "d", " ", "n", "o", "t", " ",
      "a", "v", "a", "i", "l", "a", "b", "l", "e", " ", "o", "n", " ", "t",
      "h", "i", "s", " ", "p", "l", "a", "t", "f", "o", "r", "m">>

\* the text handle_export_mode writes at c in a build for another target than linux
SimulatedText ==
    <<"C", "l", "i", "p", "b", "o", "a", "r", "d", " ", "c", "o", "p", "y",
      " ", "s", "i", "m", "u", "l", "a", "t", "e", "d", " ", "(", "a", "d",
      "d", " ", "p", "l", "a", "t", "f", "o", "r", "m", "-", "s", "p", "e",
      "c", "i", "f", "i", "c", " ", "i", "m", "p", "l", "e", "m", "e", "n",
      "t", "a", "t", "i", "o", "n", ")">>

\* the text handle_export_mode writes at s
PrintedText ==
    <<"E", "x", "p", "o", "r", "t", " ", "o", "p", "t", "i", "o", "n", "s",
      " ", "p", "r", "i", "n", "t", "e", "d", " ", "t", "o", " ", "c", "o",
      "n", "s", "o", "l", "e">>

\* App::default of main.rs; panicked is the model's mark of a thread that
\* has panicked
MainAppDefault ==
    [mode |-> "Normal", input_text |-> <<>>, styled_chars |-> <<>>,
     cursor_position |-> 0, selection_start |-> None,
     current_fg_color |-> "White", current_bg_color |-> "Black",
     current_bold |-> FALSE, current_dim_level |-> 0, show_help |-> TRUE,
     panicked |-> FALSE]

\* App::update_styled_chars: one entry per character, all in the pending style
update_styled_chars(j) ==
    [j EXCEPT !.styled_chars =
        [k \in 1..Len(j.input_text) |->
            [char |-> j.input_text[k], fg_color |-> j.current_fg_color,
             bg_color |-> j.current_bg_color, is_bold |-> j.current_bold,
             dim_level |-> j.current_dim_level]]]

\* App::apply_style_to_selection over get_current_selection_range:
\* styled_chars.get_mut(i) skips the indices that have no entry
apply_style_to_selection(j) ==
    LET start == IF IsSome(j.selection_start) THEN Unwrap(j.selection_start)
                 ELSE j.cursor_position
        end == j.cursor_position
        lo == Min(start, end)
        hi == Max(start, end)
    IN [j EXCEPT !.styled_chars =
          [k \in 1..Len(j.styled_chars) |->
              IF lo <= k - 1 /\ k - 1 < hi
              THEN [j.styled_chars[k] EXCEPT
                      !.fg_color = j.current_fg_color,
                      !.bg_color = j.current_bg_color,
                      !.is_bold = j.current_bold,
                      !.dim_level = j.current_dim_level]
              ELSE j.styled_chars[k]]]

\* str::contains
Contains(text, word) ==
    \E k \in 1..(Len(text) - Len(word) + 1) :
        SubSeq(text, k, k + Len(word) - 1) = word

\* should_quit
should_quit(j) ==
    Contains(j.input_text, QuitText)
    \/ Contains(j.input_text, <<"e", "x", "i", "t">>)

\* handle_normal_mode
handle_normal_mode(j, key) ==
    CASE key = "e" -> [j EXCEPT !.mode = "Editing"]
      [] key = "c" -> [j EXCEPT !.mode = "ColorSelection"]
      [] key = "x" -> [j EXCEPT !.mode = "Export"]
      [] key = "q" -> [j EXCEPT !.input_text = QuitText]
      [] key = "h" -> [j EXCEPT !.show_help = ~j.show_help]
      [] key = "Left" ->
           IF j.cursor_position > 0
           THEN [j EXCEPT !.cursor_position = j.cursor_position - 1] ELSE j
      [] key = "Right" ->
           IF j.cursor_position < Len(j.input_text)
           THEN [j EXCEPT !.cursor_position = j.cursor_position + 1] ELSE j
      [] key = " " -> [j EXCEPT !.selection_start = Some(j.cursor_position)]
      [] OTHER -> j

\* what the clipboard of handle_export_mode answers: the build is for linux
\* and the copy succeeded, set_contents failed, no context could be made, or
\* the build is for another target
CopyOutcomes == {"copied", "failed", "unavailable", "simulated"}

\* handle_export_mode
handle_export_mode(j, key, outcome) ==
    CASE key = "Esc" -> [j EXCEPT !.mode = "Normal"]
      [] key = "c" ->
           [j EXCEPT !.input_text =
               CASE outcome = "copied" -> CopiedText
                 [] outcome = "failed" -> CopyFailedText
                 [] outcome = "unavailable" -> NoClipboardText
                 [] OTHER -> SimulatedText]
      [] key = "s" -> [j EXCEPT !.input_text = PrintedText]
      [] OTHER -> j

\* the keys that are not KeyCode::Char
MainSpecialKeys == {"Esc", "Enter", "Backspace", "Delete", "Left", "Right"}

\* String::insert(idx, ch): panics when idx is beyond the end
StringInsert(text, idx, ch) ==
    SubSeq(text, 1, idx) \o <<ch>> \o SubSeq(text, idx + 1, Len(text))

\* String::remove(idx): panics when idx is not below the length
StringRemove(text, idx) ==
    SubSeq(text, 1, idx) \o SubSeq(text, idx + 2, Len(text))

\* handle_editing_mode
handle_editing_mode(j, key) ==
    CASE key \in {"Esc", "Enter"} -> [j EXCEPT !.mode = "Normal"]
      [] key \notin MainSpecialKeys ->
           IF j.cursor_position > Len(j.input_text)
           THEN [j EXCEPT !.panicked = TRUE]
           ELSE update_styled_chars(
                  [j EXCEPT !.input_text =
                                StringInsert(j.input_text, j.cursor_position, key),
                            !.cursor_position = j.cursor_position + 1])
      [] key = "Backspace" ->
           IF j.cursor_position > 0
           THEN IF j.cursor_position - 1 >= Len(j.input_text)
                THEN [j EXCEPT !.panicked = TRUE]
                ELSE update_styled_chars(
                       [j EXCEPT !.input_text =
                                     StringRemove(j.input_text,
                                                  j.cursor_position - 1),
                                 !.cursor_position = j.cursor_position - 1])
           ELSE j
      [] key = "Delete" ->
           IF j.cursor_position < Len(j.input_text)
           THEN update_styled_chars(
                  [j EXCEPT !.input_text =
                                StringRemove(j.input_text, j.cursor_position)])
           ELSE j
      [] key = "Left" ->
           IF j.cursor_position > 0
           THEN [j EXCEPT !.cursor_position = j.cursor_position - 1] ELSE j
      [] key = "Right" ->
           IF j.cursor_position < Len(j.input_text)
           THEN [j EXCEPT !.cursor_position = j.cursor_position + 1] ELSE j
      [] OTHER -> j

\* the cycles of the foreground and of the background colour
NextFgColor(c) ==
    CASE c = "White" -> "Red" [] c = "Red" -> "Green" [] c = "Green" -> "Blue"
      [] c = "Blue" -> "Yellow" [] c = "Yellow" -> "Cyan"
      [] c = "Cyan" -> "Magenta" [] c = "Magenta" -> "Black"
      [] c = "Black" -> "White" [] OTHER -> "White"

NextBgColor(c) ==
    CASE c = "Black" -> "White" [] c = "White" -> "Red" [] c = "Red" -> "Green"
      [] c = "Green" -> "Blue" [] c = "Blue" -> "Yellow"
      [] c = "Yellow" -> "Cyan" [] c = "Cyan" -> "Magenta"
      [] c = "Magenta" -> "Black" [] OTHER -> "Black"

\* handle_color_selection
handle_color_selection(j, key) ==
    CASE key = "Esc" -> [j EXCEPT !.mode = "Normal"]
      [] key = "f" ->
           [j EXCEPT !.current_fg_color = NextFgColor(j.current_fg_color)]
      [] key = "b" ->
           [j EXCEPT !.current_bg_color = NextBgColor(j.current_bg_color)]
      [] key = "d" ->
           LET added == Min(j.current_dim_level + 10, 255)
           IN [j EXCEPT !.current_dim_level = IF added > 100 THEN 0 ELSE added]
      [] key = "B" -> [j EXCEPT !.current_bold = ~j.current_bold]
      [] key = "a" ->
           [apply_style_to_selection(j) EXCEPT !.mode = "Normal"]
      [] OTHER -> j

\* longest text typed into the standalone editor
MaxMainLen == 3

\* longest text whose characters are styled
MaxStyledLen == 2

MainTexts ==
    {QuitText, CopiedText, CopyFailedText, NoClipboardText, SimulatedText,
     PrintedText}

MainStyle(j) ==
    <<j.current_fg_color, j.current_bg_color, j.current_bold,
      j.current_dim_level>>

MainDefaultStyle == MainStyle(MainAppDefault)

\* the pending styles explored: at most one key away from the default
MainStyles ==
    {MainDefaultStyle, <<"Red", "Black", FALSE, 0>>,
     <<"White", "White", FALSE, 0>>, <<"White", "Black", TRUE, 0>>,
     <<"White", "Black", FALSE, 10>>}

\* the states the standalone editor explores: the text is made of at most
\* MaxMainLen typed characters "a" or is one of the texts the handlers
\* write; styles other than the default and a selection are explored on
\* texts of at most MaxStyledLen characters
MainBounded(j) ==
    /\ \/ /\ Len(j.input_text) <= MaxMainLen
          /\ \A k \in 1..Len(j.input_text) : j.input_text[k] = "a"
       \/ j.input_text \in MainTexts
    /\ MainStyle(j) \in MainStyles
    /\ \A k \in 1..Len(j.styled_chars) :
         <<j.styled_chars[k].fg_color, j.styled_chars[k].bg_color,
           j.styled_chars[k].is_bold, j.styled_chars[k].dim_level>>
           \in {MainDefaultStyle, MainStyle(j)}
    /\ Len(j.input_text) > MaxStyledLen
         => /\ MainStyle(j) = MainDefaultStyle
            /\ j.selection_start = None
            /\ j.show_help

\* the loop of main runs until a handler panics or, in Normal mode,
\* should_quit holds
MainRunning(j) == ~j.panicked /\ ~(j.mode = "Normal" /\ should_quit(j))

InitMain == app = AppDefault /\ job = MainAppDefault

NormalModeKey ==
    \E key \in {"e", "c", "x", "q", "h", "Left", "Right", " ", "Enter"} :
        LET after == handle_normal_mode(job, key)
        IN /\ MainRunning(job)
           /\ job.mode = "Normal"
           /\ MainBounded(after)
           /\ job' = after
           /\ UNCHANGED app

EditingModeKey ==
    \E key \in MainSpecialKeys \cup {"a"} :
        LET after == handle_editing_mode(job, key)
        IN /\ MainRunning(job)
           /\ job.mode = "Editing"
           /\ MainBounded(after)
           /\ job' = after
           /\ UNCHANGED app

ColorSelectionKey ==
    \E key \in {"Esc", "f", "b", "d", "B", "a", "Enter"} :
        LET after == handle_color_selection(job, key)
        IN /\ MainRunning(job)
           /\ job.mode = "ColorSelection"
           /\ MainBounded(after)
           /\ job' = after
           /\ UNCHANGED app

ExportModeKey ==
    \E key \in {"Esc", "c", "s", "Enter"}, outcome \in CopyOutcomes :
        LET after == handle_export_mode(job, key, outcome)
        IN /\ MainRunning(job)
           /\ job.mode = "Export"
           /\ MainBounded(after)
           /\ job' = after
           /\ UNCHANGED app

NextMain == NormalModeKey \/ EditingModeKey \/ ColorSelectionKey \/ ExportModeKey

SpecMain == InitMain /\ [][NextMain]_vars

\* C39: in every state of the standalone editor the cursor is not beyond
\* the text and styled_chars has one entry per character of the text, so
\* that no insert and no delete of Editing mode indexes past the end
C39_MainCursorAndStylesInBounds ==
    /\ job.cursor_position <= Len(job.input_text)
    /\ Len(job.styled_chars) = Len(job.input_text)
    /\ ~job.panicked
====
